---------------------------- MODULE Spec2Model ----------------------------
(***************************************************************************)
(* A model of the pdf-rs object layer: the cross-reference merge           *)
(* (document.rs), the page tree builder (catalog.rs), read_object over the *)
(* tokenizer (document.rs, tokenizer.rs) and the stream filter pipeline    *)
(* (filter.rs, utils.rs).                                                  *)
(*                                                                         *)
(* Option<T> values are sequences: << >> is None and <<x>> is Some(x).     *)
(* An object reference (obj_num, gen_num) is the tuple <<o, g>>.           *)
(* Each subsystem has its own specification (SpecXref, SpecTree, SpecRead, *)
(* SpecFilter); the variables a specification does not use keep the value  *)
(* its Init gives them.                                                    *)
(***************************************************************************)
EXTENDS Integers, Sequences, FiniteSets, TLC

VARIABLES
    pc,        \* where the running operation stands: "loop"/"build"/"ready"/"done"/"err"
    err,       \* the PDFError the operation ended with ("" when none)
    \* ---- the file, as the xref walker sees it
    secs,      \* offset -> what lies at that offset (an xref section with its trailer, or not)
    pos,       \* the tokenizer's offset in the file after its last seek
    \* ---- merge_xref_table's locals / PDFDocument's fields
    xrefs,     \* Vec<XEntry>
    catalog,   \* Option<(u32, u16)>
    info,      \* Option<(u32, u16)>
    \* ---- the page tree builder
    objs,      \* offset -> the indirect object that parses at that offset
    call,      \* Option of the pending build_page_tree call [ref, parent]
    stack,     \* the build_page_tree invocations that are iterating their /Kids
    nodes,     \* PageTreeArean.nodes: NodeId -> PageNode
    \* ---- read_object
    file,      \* the file as a sequence of lexemes (offset i is lexeme i + 1)
    tok,       \* the Tokenizer: [buf, token_buf, spos]
    result,    \* what the last read_object returned
    \* ---- the filter pipeline
    stream,    \* the Stream: [buf, filters]
    decoded,   \* what the last decode returned
    \* ---- single functions and the byte sequence
    arg,       \* the argument of the function under study
    ret,       \* what its last call returned
    seq        \* the FileSequence: [buf, pos]

vars == <<pc, err, secs, pos, xrefs, catalog, info, objs, call, stack, nodes,
          file, tok, result, stream, decoded, arg, ret, seq>>

xrefVars   == <<secs, pos, catalog, info>>
treeVars   == <<objs, call, stack>>
readVars   == <<file, tok, result>>
filterVars == <<stream, decoded>>
callVars   == <<arg, ret, seq>>

None == << >>
Some(x) == <<x>>
IsSome(o) == o # << >>
Get(o) == o[1]

(***************************************************************************)
(* XEntry (objects.rs): value, using, obj_num, gen_num.                    *)
(***************************************************************************)
XEntry(obj_num, gen_num, value, using) ==
    [obj_num |-> obj_num, gen_num |-> gen_num, value |-> value, using |-> using]

RECURSIVE SeqToSet(_)
SeqToSet(s) == IF s = << >> THEN {} ELSE {Head(s)} \cup SeqToSet(Tail(s))

(***************************************************************************)
(*                       The cross-reference merge                         *)
(***************************************************************************)

\* Bounds of the xref model.
MaxSec == 2      \* xref sections in the file, at offsets 1..MaxSec
MaxSubs == 2     \* subsections of one section
MaxFirst == 1    \* a subsection's first object number is in 0..MaxFirst
MaxCount == 1    \* a subsection's entry count is in 0..MaxCount

SecOffsets == 1..MaxSec
\* Sequence.size() of the modelled file: an offset above it cannot be sought.
XrefFileSize == MaxSec
BadOffset == XrefFileSize + 1

SubHeaders == [first : 0..MaxFirst, count : 0..MaxCount]
Shapes == UNION {[1..n -> SubHeaders] : n \in 1..MaxSubs}

RootRefs == {<<1, 0>>, <<2, 0>>}
InfoRefs == {<<3, 0>>}
OptOf(S) == {None} \cup {Some(x) : x \in S}

Trailers ==
    [isDict : {TRUE}, root : OptOf(RootRefs), info : OptOf(InfoRefs),
     prev : OptOf(SecOffsets \cup {BadOffset})]
    \cup {[isDict |-> FALSE, root |-> None, info |-> None, prev |-> None]}

\* The entry lines of subsection j of the section at offset off: the k-th
\* line describes object first + k - 1.  Its offset field is unique in the
\* file; object 0 is the head of the free list.
EntryLine(off, j, k, obj) ==
    [value |-> off * 100 + j * 10 + k,
     gen_num |-> IF obj = 0 THEN 65535 ELSE 0,
     using |-> obj # 0]

SectionAt(off, shape, trailer) ==
    [isXref |-> TRUE,
     subs |-> [j \in DOMAIN shape |->
                 [first |-> shape[j].first,
                  lines |-> [k \in 1..shape[j].count |->
                               EntryLine(off, j, k, shape[j].first + k - 1)]]],
     trailer |-> trailer]

NoSection ==
    [isXref |-> FALSE, subs |-> << >>,
     trailer |-> [isDict |-> FALSE, root |-> None, info |-> None, prev |-> None]]

\* parse_text_xref: every subsection `first count` followed by count entry
\* lines `offset gen n|f`; line k of a subsection becomes the XEntry of
\* object first + k - 1.  The entries are returned in file order.
SubEntries(sub) ==
    [k \in DOMAIN sub.lines |->
        XEntry(sub.first + k - 1, sub.lines[k].gen_num, sub.lines[k].value,
               sub.lines[k].using)]

RECURSIVE ConcatSubs(_)
ConcatSubs(subs) ==
    IF subs = << >> THEN << >>
    ELSE SubEntries(Head(subs)) \o ConcatSubs(Tail(subs))

ParseTextXref(sec) == ConcatSubs(sec.subs)

\* document.rs 224-232: the first non-empty batch is taken whole; from then
\* on an entry is pushed only when no entry of the table has its obj_num.
HasObjNum(xs, o) == \E i \in DOMAIN xs : xs[i].obj_num = o

RECURSIVE PushMissing(_, _)
PushMissing(xs, entries) ==
    IF entries = << >> THEN xs
    ELSE PushMissing(IF HasObjNum(xs, Head(entries).obj_num) THEN xs
                     ELSE Append(xs, Head(entries)),
                     Tail(entries))

\* Mutant: every entry is pushed, the table's own entries included.
MergeEntriesPushAll(xs, entries) == xs \o entries

MergeEntries(xs, entries) ==
    IF xs = << >> THEN entries ELSE PushMissing(xs, entries)

\* document.rs 234-240: /Root of this trailer replaces the catalog found so
\* far; /Info is read only inside the /Root branch.
TrailerCatalog(cat, trailer) ==
    IF IsSome(trailer.root) THEN trailer.root ELSE cat

TrailerInfo(inf, trailer) ==
    IF IsSome(trailer.root) /\ IsSome(trailer.info) THEN trailer.info ELSE inf

\* Sequence.seek (sequence.rs 87-95): SeekExceed when size < pos.
SeekFails(size, p) == size < p

InitIdleTree == objs = << >> /\ call = None /\ stack = << >> /\ nodes = << >>
InitIdleRead == file = << >> /\ tok = [buf |-> << >>, token_buf |-> << >>, spos |-> 0]
                /\ result = None
InitIdleFilter == stream = [buf |-> << >>, filters |-> << >>] /\ decoded = None
InitIdleCall == arg = None /\ ret = None /\ seq = [buf |-> << >>, pos |-> 0]

\* PDFDocument::new has sought the tokenizer to the startxref offset
\* (document.rs 70-72) and merge_xref_table starts with empty locals.
InitXref ==
    /\ \E shp \in [SecOffsets -> Shapes \cup {<< >>}],
          trl \in [SecOffsets -> Trailers] :
          secs = [off \in SecOffsets |->
                     IF shp[off] = << >> THEN NoSection
                     ELSE SectionAt(off, shp[off], trl[off])]
    /\ pos = MaxSec
    /\ xrefs = << >>
    /\ catalog = None
    /\ info = None
    /\ pc = "loop"
    /\ err = ""
    /\ InitIdleTree /\ InitIdleRead /\ InitIdleFilter /\ InitIdleCall

\* One turn of merge_xref_table's loop ends in one of five ways.

\* document.rs 219-222: the next token is not the xref keyword.
MergeNotXref ==
    /\ pc = "loop"
    /\ ~secs[pos].isXref
    /\ pc' = "err"
    /\ err' = "XrefTableNotFound"
    /\ UNCHANGED <<secs, pos, xrefs, catalog, info>>
    /\ UNCHANGED <<treeVars, nodes, readVars, filterVars, callVars>>

\* document.rs 233, 248: what follows the entries is not a dictionary.
MergeBroken ==
    /\ pc = "loop"
    /\ secs[pos].isXref
    /\ ~secs[pos].trailer.isDict
    /\ xrefs' = MergeEntries(xrefs, ParseTextXref(secs[pos]))
    /\ pc' = "err"
    /\ err' = "PDFParseError"
    /\ UNCHANGED <<secs, pos, catalog, info>>
    /\ UNCHANGED <<treeVars, nodes, readVars, filterVars, callVars>>

\* document.rs 242-245: the trailer has /Prev and the seek succeeds.
MergeContinue ==
    /\ pc = "loop"
    /\ secs[pos].isXref
    /\ secs[pos].trailer.isDict
    /\ IsSome(secs[pos].trailer.prev)
    /\ ~SeekFails(XrefFileSize, Get(secs[pos].trailer.prev))
    /\ xrefs' = MergeEntries(xrefs, ParseTextXref(secs[pos]))
    /\ catalog' = TrailerCatalog(catalog, secs[pos].trailer)
    /\ info' = TrailerInfo(info, secs[pos].trailer)
    /\ pos' = Get(secs[pos].trailer.prev)
    /\ UNCHANGED <<pc, err, secs>>
    /\ UNCHANGED <<treeVars, nodes, readVars, filterVars, callVars>>

\* document.rs 243: the seek to /Prev fails.
MergeSeekExceed ==
    /\ pc = "loop"
    /\ secs[pos].isXref
    /\ secs[pos].trailer.isDict
    /\ IsSome(secs[pos].trailer.prev)
    /\ SeekFails(XrefFileSize, Get(secs[pos].trailer.prev))
    /\ xrefs' = MergeEntries(xrefs, ParseTextXref(secs[pos]))
    /\ catalog' = TrailerCatalog(catalog, secs[pos].trailer)
    /\ info' = TrailerInfo(info, secs[pos].trailer)
    /\ pc' = "err"
    /\ err' = "SeekExceed"
    /\ UNCHANGED <<secs, pos>>
    /\ UNCHANGED <<treeVars, nodes, readVars, filterVars, callVars>>

\* document.rs 246: no /Prev, the merged table is returned.
MergeReturn ==
    /\ pc = "loop"
    /\ secs[pos].isXref
    /\ secs[pos].trailer.isDict
    /\ ~IsSome(secs[pos].trailer.prev)
    /\ xrefs' = MergeEntries(xrefs, ParseTextXref(secs[pos]))
    /\ catalog' = TrailerCatalog(catalog, secs[pos].trailer)
    /\ info' = TrailerInfo(info, secs[pos].trailer)
    /\ pc' = "done"
    /\ UNCHANGED <<err, secs, pos>>
    /\ UNCHANGED <<treeVars, nodes, readVars, filterVars, callVars>>

NextXref ==
    \/ MergeNotXref
    \/ MergeBroken
    \/ MergeContinue
    \/ MergeSeekExceed
    \/ MergeReturn

SpecXref == InitXref /\ [][NextXref]_vars


(***************************************************************************)
(* Claims about the merge.                                                 *)
(***************************************************************************)

\* The offsets the walk visits, newest first: from the startxref offset along
\* /Prev.  When the merge has returned, the walk ended at a trailer without
\* /Prev and visited no offset twice.
RECURSIVE ChainFrom(_, _)
ChainFrom(off, fuel) ==
    IF fuel = 0 THEN << >>
    ELSE LET t == secs[off].trailer IN
         IF secs[off].isXref /\ t.isDict /\ IsSome(t.prev)
            /\ ~SeekFails(XrefFileSize, Get(t.prev))
         THEN <<off>> \o ChainFrom(Get(t.prev), fuel - 1)
         ELSE <<off>>

Chain == ChainFrom(MaxSec, MaxSec)

SectionObjNums(off) == {e.obj_num : e \in SeqToSet(ParseTextXref(secs[off]))}

\* The position in Chain of the first visited section that has an entry for o
\* (0 when no visited section has one).
RECURSIVE FirstWith(_, _)
FirstWith(o, i) ==
    IF i > Len(Chain) THEN 0
    ELSE IF o \in SectionObjNums(Chain[i]) THEN i
    ELSE FirstWith(o, i + 1)

RECURSIVE FirstRootFrom(_)
FirstRootFrom(i) ==
    IF i > Len(Chain) THEN None
    ELSE IF IsSome(secs[Chain[i]].trailer.root) THEN secs[Chain[i]].trailer.root
    ELSE FirstRootFrom(i + 1)

\* C1: after merge_xref_table returns successfully, no two entries of the
\* merged table have the same obj_num.
C1_NoDuplicateObjNum ==
    pc = "done" =>
        \A i, j \in DOMAIN xrefs : i # j => xrefs[i].obj_num # xrefs[j].obj_num

\* C2: when an obj_num has entries in several sections of the /Prev chain,
\* the merged table holds an entry of the section visited first and no entry
\* for that obj_num from any older section.
C2_FirstSectionWins ==
    pc = "done" =>
        \A o \in 0..(MaxFirst + MaxCount) :
            LET k == FirstWith(o, 1) IN
            k # 0 =>
                LET newest == SeqToSet(ParseTextXref(secs[Chain[k]])) IN
                /\ \E e \in SeqToSet(xrefs) : e.obj_num = o /\ e \in newest
                /\ \A e \in SeqToSet(xrefs) : e.obj_num = o => e \in newest

\* A returned merge over two sections that both describe some object.
C2_Witness ==
    /\ pc = "done"
    /\ Len(Chain) >= 2
    /\ SectionObjNums(Chain[1]) \cap SectionObjNums(Chain[2]) # {}

\* C3: merge_xref_table returns as catalog the /Root of the most recent
\* trailer on the /Prev chain that has one.
C3_LatestRoot ==
    pc = "done" => catalog = FirstRootFrom(1)


(***************************************************************************)
(*                         The page tree builder                           *)
(***************************************************************************)

\* Bounds of the page tree model.
MaxObj == 2      \* indirect objects 1..MaxObj; object o lies at offset o
MaxKids == 2     \* length of a /Kids array
MaxDepth == 3    \* nested build_page_tree invocations the model follows

ObjNums == 1..MaxObj
KidRefs == {<<o, 0>> : o \in ObjNums}

\* mixture_node_id! (catalog.rs 14-19): obj_num << 16 | gen_num.
MixtureNodeId(obj_num, gen_num) == obj_num * 65536 + gen_num
RefId(ref) == MixtureNodeId(ref[1], ref[2])

\* What parse_with_offset finds at an object's offset: a page dictionary
\* (no /Type /Pages), a /Type /Pages dictionary with its /Count and /Kids
\* when present, or an indirect object that is no dictionary.
PageDict == [kind |-> "page", count |-> None, kids |-> None]
OtherObject == [kind |-> "other", count |-> None, kids |-> None]
PagesDicts ==
    {[kind |-> "pages", count |-> c, kids |-> k] :
        c \in {None, Some(0), Some(1)},
        k \in {None} \cup {Some(a) : a \in UNION {[1..n -> KidRefs] : n \in 1..MaxKids}}}

\* A /Count of zero or a missing /Count ends the invocation before /Kids is
\* looked at, so those dictionaries are listed once, without /Kids.
TreeObjects ==
    {PageDict, OtherObject}
    \cup {d \in PagesDicts : d.count = Some(1) \/ d.kids = None}

\* The xref entry of object o: in use with generation 0 or 1, or free.
TreeEntries(o) ==
    {XEntry(o, 0, o, TRUE), XEntry(o, 1, o, TRUE), XEntry(o, 0, o, FALSE)}

\* xrefs_search (utils.rs 224-228): the first entry with this obj_num and
\* gen_num, whatever its `using` flag.
XrefsSearchIndex(xs, ref) ==
    LET hits == {i \in DOMAIN xs : xs[i].obj_num = ref[1] /\ xs[i].gen_num = ref[2]}
    IN IF hits = {} THEN 0 ELSE CHOOSE i \in hits : \A j \in hits : i <= j

XrefsSearch(xs, ref) ==
    IF XrefsSearchIndex(xs, ref) = 0 THEN None
    ELSE Some(xs[XrefsSearchIndex(xs, ref)])

\* parse_with_offset(tokenizer, entry.value) in the tree model.
ObjectAt(offset) ==
    IF offset \in DOMAIN objs THEN Some(objs[offset]) ELSE None

\* HashMap::insert.
Insert(map, key, value) ==
    [k \in DOMAIN map \cup {key} |-> IF k = key THEN value ELSE map[k]]

PageNode(isPages, count, kids, parent_id) ==
    [isPages |-> isPages, count |-> count, kids |-> kids, parent_id |-> parent_id]

\* decode_catalog_data (catalog.rs 123-127) calls build_page_tree on the
\* catalog's /Pages reference, here 1 0 R, with no parent and an empty map.
InitTree ==
    /\ \E ents \in [ObjNums -> UNION {TreeEntries(o) : o \in ObjNums}] :
          /\ \A o \in ObjNums : ents[o] \in TreeEntries(o)
          /\ xrefs = <<XEntry(0, 65535, 0, FALSE)>> \o ents
    /\ objs \in [ObjNums -> TreeObjects]
    /\ call = Some([ref |-> <<1, 0>>, parent_id |-> None])
    /\ stack = << >>
    /\ nodes = << >>
    /\ pc = "build"
    /\ err = ""
    /\ secs = << >> /\ pos = 0 /\ catalog = Some(<<0, 0>>) /\ info = None
    /\ InitIdleRead /\ InitIdleFilter /\ InitIdleCall

\* The pending invocation, its xref entry and the object at the entry's value.
CallRef == Get(call).ref
CallEntry == XrefsSearch(xrefs, CallRef)
CallObject == IF IsSome(CallEntry) THEN ObjectAt(Get(CallEntry).value) ELSE None

\* After an invocation returns Ok: the caller goes on, or the build is done.
AfterReturn(stk) == IF stk = << >> THEN "done" ELSE "build"

TreeFrame == UNCHANGED <<xrefs, objs, xrefVars, readVars, filterVars, callVars>>

\* catalog.rs 170: xrefs_search finds no entry.
BuildEntryNotFound ==
    /\ pc = "build" /\ IsSome(call)
    /\ ~IsSome(CallEntry)
    /\ pc' = "err" /\ err' = "XrefEntryNotFound"
    /\ UNCHANGED <<call, stack, nodes>> /\ TreeFrame

\* catalog.rs 171-178: nothing parses there, or the object is no dictionary.
BuildNotDict ==
    /\ pc = "build" /\ IsSome(call)
    /\ IsSome(CallEntry)
    /\ (~IsSome(CallObject) \/ Get(CallObject).kind = "other")
    /\ pc' = "err" /\ err' = "PDFParseError"
    /\ UNCHANGED <<call, stack, nodes>> /\ TreeFrame

\* catalog.rs 179-191: not /Type /Pages, so a leaf with count 0 and no kids.
BuildLeaf ==
    /\ pc = "build" /\ IsSome(call)
    /\ IsSome(CallObject) /\ Get(CallObject).kind = "page"
    /\ nodes' = Insert(nodes, RefId(CallRef), PageNode(FALSE, 0, None, Get(call).parent_id))
    /\ call' = None
    /\ pc' = AfterReturn(stack)
    /\ UNCHANGED <<err, stack>> /\ TreeFrame

\* catalog.rs 192-201: /Count is missing, or /Count > 0 and /Kids is missing.
BuildBadPages ==
    /\ pc = "build" /\ IsSome(call)
    /\ IsSome(CallObject) /\ Get(CallObject).kind = "pages"
    /\ IF IsSome(Get(CallObject).count)
       THEN Get(Get(CallObject).count) > 0 /\ ~IsSome(Get(CallObject).kids)
       ELSE TRUE
    /\ pc' = "err" /\ err' = "PDFParseError"
    /\ UNCHANGED <<call, stack, nodes>> /\ TreeFrame

\* catalog.rs 192-197, 216-223: /Count is 0, /Kids is not read.
BuildEmptyPages ==
    /\ pc = "build" /\ IsSome(call)
    /\ IsSome(CallObject) /\ Get(CallObject).kind = "pages"
    /\ Get(CallObject).count = Some(0)
    /\ nodes' = Insert(nodes, RefId(CallRef), PageNode(TRUE, 0, None, Get(call).parent_id))
    /\ call' = None
    /\ pc' = AfterReturn(stack)
    /\ UNCHANGED <<err, stack>> /\ TreeFrame

\* catalog.rs 197-203: /Count > 0, the invocation starts on its /Kids.
BuildEnterKids ==
    /\ pc = "build" /\ IsSome(call)
    /\ IsSome(CallObject) /\ Get(CallObject).kind = "pages"
    /\ IsSome(Get(CallObject).count) /\ Get(Get(CallObject).count) > 0
    /\ IsSome(Get(CallObject).kids)
    /\ Len(stack) < MaxDepth
    /\ stack' = Append(stack,
                   [ref |-> CallRef, parent_id |-> Get(call).parent_id,
                    count |-> Get(Get(CallObject).count),
                    kids |-> Get(Get(CallObject).kids), i |-> 1, children |-> << >>])
    /\ call' = None
    /\ UNCHANGED <<pc, err, nodes>> /\ TreeFrame

Top == stack[Len(stack)]

\* catalog.rs 204-207: the next kid is pushed on children and built.
BuildNextKid ==
    /\ pc = "build" /\ ~IsSome(call) /\ stack # << >>
    /\ Top.i <= Len(Top.kids)
    /\ stack' = [stack EXCEPT ![Len(stack)] =
                   [@ EXCEPT !.i = @ + 1,
                             !.children = Append(@, RefId(Top.kids[Top.i]))]]
    /\ call' = Some([ref |-> Top.kids[Top.i], parent_id |-> Some(RefId(Top.ref))])
    /\ UNCHANGED <<pc, err, nodes>> /\ TreeFrame

\* catalog.rs 214-223: all kids are built, the node is inserted.
BuildFinish ==
    /\ pc = "build" /\ ~IsSome(call) /\ stack # << >>
    /\ Top.i > Len(Top.kids)
    /\ nodes' = Insert(nodes, RefId(Top.ref),
                       PageNode(TRUE, Top.count, Some(Top.children), Top.parent_id))
    /\ stack' = SubSeq(stack, 1, Len(stack) - 1)
    /\ pc' = AfterReturn(stack')
    /\ UNCHANGED <<err, call>> /\ TreeFrame

NextTree ==
    \/ BuildEntryNotFound
    \/ BuildNotDict
    \/ BuildLeaf
    \/ BuildBadPages
    \/ BuildEmptyPages
    \/ BuildEnterKids
    \/ BuildNextKid
    \/ BuildFinish

SpecTree == InitTree /\ [][NextTree]_vars

\* PageTreeArean::get_page_num (catalog.rs 319-321).
GetPageNum(ns) == Cardinality({id \in DOMAIN ns : ns[id].count = 0})

\* get_page_ids: the leaves (nodes without kids) below the root, depth first,
\* left to right.
RECURSIVE PageIdsFrom(_, _, _)
RECURSIVE PageIdsOfKids(_, _, _)
PageIdsFrom(ns, id, fuel) ==
    IF fuel = 0 \/ id \notin DOMAIN ns THEN << >>
    ELSE IF ~IsSome(ns[id].kids) THEN <<id>>
    ELSE PageIdsOfKids(ns, Get(ns[id].kids), fuel - 1)
PageIdsOfKids(ns, kids, fuel) ==
    IF kids = << >> THEN << >>
    ELSE PageIdsFrom(ns, Head(kids), fuel) \o PageIdsOfKids(ns, Tail(kids), fuel)

GetPageIds(ns) == PageIdsFrom(ns, MixtureNodeId(1, 0), MaxDepth + 1)

(***************************************************************************)
(* Claims about the page tree.                                             *)
(***************************************************************************)

\* C4: a node id that is already being built is never built a second time:
\* no two of the nested build_page_tree invocations build the same node.
C4_NoNodeBuiltTwice ==
    \A i, j \in DOMAIN stack : i # j => RefId(stack[i].ref) # RefId(stack[j].ref)

\* C5: for every successfully opened document get_page_num() is the number of
\* nodes whose dictionary is not /Type /Pages and the length of
\* get_page_ids(), and every id of get_page_ids() is a node without kids.
C5_PageNumIsLeafCount ==
    pc = "done" =>
        /\ GetPageNum(nodes) = Cardinality({id \in DOMAIN nodes : ~nodes[id].isPages})
        /\ GetPageNum(nodes) = Len(GetPageIds(nodes))
        /\ \A id \in SeqToSet(GetPageIds(nodes)) :
              id \in DOMAIN nodes /\ ~IsSome(nodes[id].kids)

\* C8: a reference (o, g) is dereferenced successfully only if the table has
\* an entry with obj_num = o, gen_num = g and in_use = true: every node that
\* was built, or is being built, has such an entry.
C8_DerefOnlyInUse ==
    \A id \in DOMAIN nodes \cup {RefId(stack[i].ref) : i \in DOMAIN stack} :
        \E e \in SeqToSet(xrefs) :
            MixtureNodeId(e.obj_num, e.gen_num) = id /\ e.using

(***************************************************************************)
(* read_object (document.rs 144-155) over the Tokenizer (tokenizer.rs).    *)
(* The file is a sequence of lexemes, one per offset: whitespace is        *)
(* skipped before every token (tokenizer.rs 297-309) and carries nothing.  *)
(***************************************************************************)
FileLen == 5     \* lexemes in the file
ChunkLen == 2    \* lexemes one refill of Tokenizer.buf fetches (tokenizer.rs 287-294)
TableLen == FileLen + 3    \* entries of the merged table

Lexemes == {"num", "R", "obj", "endobj", "null"}
Eof == "eof"
Files == [1..FileLen -> Lexemes]
Indexes == 0..TableLen

\* XEntry::is_freed (objects.rs 423-425).
IsFreedNever(entry) == FALSE
IsFreed(entry) == ~entry.using

\* FileSequence::read (sequence.rs 42-52) into a buffer of n cells, from the
\* sequence's position on: what was read, and the tokenizer after it.
SequenceRead(tk, n) ==
    LET m == IF tk.spos + n <= Len(file) THEN n ELSE Len(file) - tk.spos
    IN [bytes |-> SubSeq(file, tk.spos + 1, tk.spos + m),
        tok |-> [tk EXCEPT !.spos = @ + m]]

\* next_chr (tokenizer.rs 283-321) followed by chr2token: Tokenizer.buf is
\* refilled when it is empty, and its first lexeme is taken; None at the end
\* of the file becomes Eof in the callers.
NextChr(tk) ==
    LET rd == SequenceRead(tk, ChunkLen)
        t == IF tk.buf = << >> THEN [rd.tok EXCEPT !.buf = rd.bytes] ELSE tk
    IN IF t.buf = << >> THEN [chr |-> Eof, tok |-> t]
       ELSE [chr |-> Head(t.buf), tok |-> [t EXCEPT !.buf = Tail(@)]]

\* next_token (tokenizer.rs 160-170).
NextToken(tk) ==
    IF tk.token_buf # << >>
    THEN [token |-> Head(tk.token_buf), tok |-> [tk EXCEPT !.token_buf = Tail(@)]]
    ELSE LET c == NextChr(tk) IN [token |-> c.chr, tok |-> c.tok]

\* check_next_token0 (tokenizer.rs 144-158): always a fresh token from buf;
\* it is pushed on token_buf when func rejects it or cache is set.  The
\* closure func is given as the set of the tokens it accepts.
CheckNextToken0(tk, cache, func) ==
    LET c == NextChr(tk)
        m == c.chr \in func
    IN [m |-> m, token |-> c.chr,
        tok |-> IF ~m \/ cache
                THEN [c.tok EXCEPT !.token_buf = Append(@, c.chr)]
                ELSE c.tok]

\* Tokenizer::seek (tokenizer.rs 323-328) over FileSequence::seek
\* (sequence.rs 87-95): on SeekExceed nothing is touched.
TokenizerSeekKeepTokens(tk, offset) ==
    IF SeekFails(Len(file), offset) THEN [ok |-> FALSE, tok |-> tk]
    ELSE [ok |-> TRUE, tok |-> [tk EXCEPT !.spos = offset]]
TokenizerSeek(tk, offset) ==
    IF SeekFails(Len(file), offset) THEN [ok |-> FALSE, tok |-> tk]
    ELSE [ok |-> TRUE, tok |-> [buf |-> << >>, token_buf |-> << >>, spos |-> offset]]

\* What a parse or a read returns, with the tokenizer it leaves behind.
\* A PDFObject is written in prefix form: <<"IndirectObject", "Null">>.
Returned(kind, obj, e, tk) == [kind |-> kind, obj |-> obj, err |-> e, tok |-> tk]

IsNumber == {"num"}
IsROrObj == {"R", "obj"}

\* parse(tokenizer): the dispatch on the first token; after an unsigned
\* number a second one is looked for, then R or obj.
RECURSIVE Parse(_)
Parse(tk) ==
    LET n == NextToken(tk) IN
    CASE n.token = Eof -> Returned("Err", << >>, "EOFError", n.tok)
      [] n.token = "null" -> Returned("Some", <<"Null">>, "", n.tok)
      [] n.token = "num" ->
           LET g == CheckNextToken0(n.tok, FALSE, IsNumber) IN
           IF ~g.m THEN Returned("Some", <<"Number">>, "", g.tok)
           ELSE LET k == CheckNextToken0(g.tok, FALSE, IsROrObj) IN
                IF ~k.m THEN Returned("Err", << >>, "PDFParseError", k.tok)
                ELSE IF k.token = "R" THEN Returned("Some", <<"ObjectRef">>, "", k.tok)
                ELSE LET inner == Parse(k.tok) IN
                     IF inner.kind = "Err" THEN inner
                     ELSE LET e == NextToken(inner.tok) IN
                          IF e.token = "endobj"
                          THEN Returned("Some", <<"IndirectObject">> \o inner.obj, "", e.tok)
                          ELSE Returned("Err", << >>, "PDFParseError", e.tok)
      [] OTHER -> Returned("Err", << >>, "PDFParseError", n.tok)

\* read_object (document.rs 144-155) on the table xs.
ReadObject(xs, tk, index) ==
    IF index >= Len(xs) THEN Returned("None", << >>, "", tk)
    ELSE IF IsFreed(xs[index + 1]) THEN Returned("None", << >>, "", tk)
    ELSE LET s == TokenizerSeek(tk, xs[index + 1].value) IN
         IF ~s.ok THEN Returned("Err", << >>, "SeekExceed", s.tok)
         ELSE Parse(s.tok)

\* The call, whether it found leftovers of an earlier read in the tokenizer,
\* and what it returned.
Stale(tk) == tk.buf # << >> \/ tk.token_buf # << >>
Outcome(index, stale, r) ==
    [index |-> index, stale |-> stale, kind |-> r.kind, obj |-> r.obj, err |-> r.err]

\* Tokenizer::new (tokenizer.rs 129-135).
FreshTokenizer == [buf |-> << >>, token_buf |-> << >>, spos |-> 0]

\* An opened document: entry 0 is the free head, and there is an in-use
\* entry for every offset up to one past the end of the file; the arena
\* holds one page.
InitRead ==
    /\ file \in Files
    /\ xrefs = [i \in 1..TableLen |->
                   IF i = 1 THEN XEntry(0, 65535, 0, FALSE)
                   ELSE XEntry(i - 1, 0, i - 2, TRUE)]
    /\ tok = FreshTokenizer
    /\ result = Outcome(0, FALSE, Returned("Init", << >>, "", tok))
    /\ nodes = (MixtureNodeId(1, 0) :> PageNode(FALSE, 0, None, None))
    /\ pc = "ready"
    /\ err = ""
    /\ secs = << >> /\ pos = 0 /\ catalog = Some(<<0, 0>>) /\ info = None
    /\ objs = << >> /\ call = None /\ stack = << >>
    /\ InitIdleFilter /\ InitIdleCall

InTable(index) == index < Len(xrefs)
InUse(index) == IF InTable(index) THEN ~IsFreed(xrefs[index + 1]) ELSE FALSE
SeekOk(index) ==
    IF InUse(index) THEN ~SeekFails(Len(file), xrefs[index + 1].value) ELSE FALSE

\* One call of read_object: &mut self reaches the tokenizer only.
ReadStep(index) ==
    /\ pc = "ready"
    /\ LET r == ReadObject(xrefs, tok, index) IN
          /\ tok' = r.tok
          /\ result' = Outcome(index, Stale(tok), r)
    /\ UNCHANGED <<pc, err, xrefs, nodes, file, xrefVars, treeVars, filterVars, callVars>>

\* document.rs 145-147.
ReadObjectOutOfRange == \E index \in Indexes : ~InTable(index) /\ ReadStep(index)
\* document.rs 148-151.
ReadObjectFreed ==
    \E index \in Indexes : InTable(index) /\ ~InUse(index) /\ ReadStep(index)
\* document.rs 152: the seek fails and `?` returns the error.
ReadObjectSeekExceed ==
    \E index \in Indexes : InUse(index) /\ ~SeekOk(index) /\ ReadStep(index)
\* document.rs 152-154.
ReadObjectParse == \E index \in Indexes : SeekOk(index) /\ ReadStep(index)

NextRead ==
    \/ ReadObjectOutOfRange
    \/ ReadObjectFreed
    \/ ReadObjectSeekExceed
    \/ ReadObjectParse

SpecRead == InitRead /\ [][NextRead]_vars

(***************************************************************************)
(* Claims about read_object.                                               *)
(***************************************************************************)

\* The object the grammar puts at an offset of the file, read off the file
\* itself: null, a number, u g R, or u g obj <object> endobj.
LexemeAt(offset) == IF offset < Len(file) THEN file[offset + 1] ELSE Eof

RECURSIVE GrammarAt(_)
GrammarAt(offset) ==
    LET bad == [kind |-> "Err", obj |-> << >>, err |-> "PDFParseError", next |-> offset]
    IN
    CASE LexemeAt(offset) = Eof ->
           [kind |-> "Err", obj |-> << >>, err |-> "EOFError", next |-> offset]
      [] LexemeAt(offset) = "null" ->
           [kind |-> "Some", obj |-> <<"Null">>, err |-> "", next |-> offset + 1]
      [] LexemeAt(offset) = "num" ->
           IF LexemeAt(offset + 1) # "num"
           THEN [kind |-> "Some", obj |-> <<"Number">>, err |-> "", next |-> offset + 1]
           ELSE IF LexemeAt(offset + 2) = "R"
           THEN [kind |-> "Some", obj |-> <<"ObjectRef">>, err |-> "", next |-> offset + 3]
           ELSE IF LexemeAt(offset + 2) = "obj"
           THEN LET inner == GrammarAt(offset + 3) IN
                IF inner.kind = "Err" THEN inner
                ELSE IF LexemeAt(inner.next) = "endobj"
                THEN [kind |-> "Some", obj |-> <<"IndirectObject">> \o inner.obj,
                      err |-> "", next |-> inner.next + 1]
                ELSE bad
           ELSE bad
      [] OTHER -> bad

MaxLen == 3        \* bytes in the stream's buffer
MaxFilters == 2    \* names in /Filter

\* LF, space, '!', '4', 'A', 'z': two whitespace bytes, base-85 digits 0, 19
\* and 32 (no group of them exceeds u32), two of them hex digits, and 'z'.
Bytes == {10, 32, 33, 52, 65, 122}
FilterNames == {"ASCIIHexDecode", "ASCII85Decode", "LZWDecode"}

RECURSIVE SeqsUpTo(_, _)
SeqsUpTo(S, n) ==
    IF n = 0 THEN {<< >>}
    ELSE SeqsUpTo(S, n - 1) \cup {Append(s, x) : s \in SeqsUpTo(S, n - 1), x \in S}

Ok(bytes) == [kind |-> "Ok", bytes |-> bytes, err |-> ""]
Failed(e) == [kind |-> "Err", bytes |-> << >>, err |-> e]
Panic == [kind |-> "Panic", bytes |-> << >>, err |-> ""]

\* hex_map! (utils.rs 16-23) with the table of hex_convert! (utils.rs
\* 59-82): the digit's value, or -1 where the macro panics.
HexMap(b) ==
    IF b \in 48..57 THEN b - 48
    ELSE IF b \in 97..102 THEN b - 87
    ELSE IF b \in 65..70 THEN b - 55
    ELSE -1

\* hex2bytes (utils.rs 157-174): pairs from the left, msb first, a missing
\* last lsb is '0'; hex2byte panics on a byte that is no hex digit.
RECURSIVE Hex2BytesFrom(_, _)
Hex2BytesFrom(bytes, i) ==
    IF i > Len(bytes) THEN Ok(<< >>)
    ELSE LET msb == bytes[i]
             lsb == IF i < Len(bytes) THEN bytes[i + 1] ELSE 48
             rest == Hex2BytesFrom(bytes, i + 2)
         IN IF HexMap(lsb) = -1 \/ HexMap(msb) = -1 THEN Panic
            ELSE IF rest.kind = "Panic" THEN Panic
            ELSE Ok(<<HexMap(msb) * 16 + HexMap(lsb)>> \o rest.bytes)

Hex2Bytes(bytes) == Hex2BytesFrom(bytes, 1)

\* ASCII_85_LOOKUP (filter.rs 22-24), indexed from 0.
Ascii85Lookup(i) == <<1, 1, 2, 3, 4>>[i + 1]

IsWhitespace85(b) == b \in {10, 13, 9, 32}

\* A u32 is kept as two 16-bit halves, [hi, lo] for hi * 2^16 + lo.
\* v * 85 + d on the halves; hi is left unreduced.
MulAdd85(v, d) ==
    [hi |-> v.hi * 85 + ((v.lo * 85 + d) \div 65536), lo |-> (v.lo * 85 + d) % 65536]

\* filter.rs 41-44: value = sum of t[i] * 85^i.  The digits of Bytes keep
\* every group below 2^32, where the u32 arithmetic neither wraps nor panics.
GroupValue(t) ==
    MulAdd85(MulAdd85(MulAdd85(MulAdd85([hi |-> 0, lo |-> t[4]], t[3]), t[2]), t[1]), t[0])

\* u32::to_be_bytes.
ToBeBytes(value) ==
    <<(value.hi \div 256) % 256, value.hi % 256, value.lo \div 256, value.lo % 256>>

ZeroGroup == [i \in 0..4 |-> 0]

\* The loop of ascii_85_decode (filter.rs 30-50) from index i (from 1) on,
\* with the locals t, w and bytes.
RECURSIVE Ascii85Loop(_, _, _, _, _)
Ascii85Loop(buf, i, t, w, bytes) ==
    IF i > Len(buf) THEN bytes
    ELSE IF buf[i] = 122
    THEN Ascii85Loop(buf, i + 1, t, w, bytes \o <<0, 0, 0, 0>>)
    ELSE IF IsWhitespace85(buf[i])
    THEN Ascii85Loop(buf, i + 1, t, w, bytes)
    ELSE LET t1 == [t EXCEPT ![4 - w] = buf[i] - 33]
             w1 == w + 1
         IN IF w1 = 5 \/ i = Len(buf)
            THEN Ascii85Loop(buf, i + 1, ZeroGroup, 0,
                     bytes \o SubSeq(ToBeBytes(GroupValue(t1)), 1, Ascii85Lookup(w1 - 1)))
            ELSE Ascii85Loop(buf, i + 1, t1, w1, bytes)

Ascii85Decode(buf) == Ascii85Loop(buf, 1, ZeroGroup, 0, << >>)

\* decode_stream_xx_decode (filter.rs 71-84); FlateDecode is zlib's and has
\* no part in this model.
DecodeStreamXxDecode(filter, buf) ==
    CASE filter = "ASCIIHexDecode" -> Hex2Bytes(buf)
      [] filter = "ASCII85Decode" -> Ok(Ascii85Decode(buf))
      [] OTHER -> Failed("NotSupportFilter")

\* decode_stream (filter.rs 103-117): the filters from the last to the
\* first; each gets the stream's buffer while `bytes` is empty.
RECURSIVE DecodeStreamFrom(_, _, _)
DecodeStreamFrom(st, i, bytes) ==
    IF i = 0 THEN Ok(bytes)
    ELSE LET slice == IF bytes = << >> THEN st.buf ELSE bytes
             r == DecodeStreamXxDecode(st.filters[i], slice)
         IN IF r.kind # "Ok" THEN r ELSE DecodeStreamFrom(st, i - 1, r.bytes)

DecodeStream(st) == DecodeStreamFrom(st, Len(st.filters), << >>)

\* A parsed stream: its bytes and what get_filters (objects.rs 457-470)
\* reads from /Filter.
InitFilter ==
    /\ stream \in [buf : SeqsUpTo(Bytes, MaxLen), filters : SeqsUpTo(FilterNames, MaxFilters)]
    /\ decoded = Ok(<< >>)
    /\ pc = "ready"
    /\ err = ""
    /\ secs = << >> /\ pos = 0 /\ catalog = None /\ info = None /\ xrefs = << >>
    /\ InitIdleTree /\ InitIdleRead /\ InitIdleCall

\* One call of decode_stream(&stream).
DecodeStep ==
    /\ decoded' = DecodeStream(stream)
    /\ pc' = "done"
    /\ UNCHANGED <<err, xrefs, nodes, stream, xrefVars, treeVars, readVars, callVars>>

\* filter.rs 116.
DecodeStreamOk ==
    pc = "ready" /\ DecodeStream(stream).kind = "Ok" /\ DecodeStep
\* filter.rs 81 and the `?` of 114.
DecodeStreamNotSupport ==
    pc = "ready" /\ DecodeStream(stream).kind = "Err" /\ DecodeStep
\* utils.rs 20 under filter.rs 79.
DecodeStreamPanic ==
    pc = "ready" /\ DecodeStream(stream).kind = "Panic" /\ DecodeStep

NextFilter ==
    \/ DecodeStreamOk
    \/ DecodeStreamNotSupport
    \/ DecodeStreamPanic

SpecFilter == InitFilter /\ [][NextFilter]_vars

(***************************************************************************)
(* Claims about the filter pipeline.                                       *)
(***************************************************************************)
SupportedFilters == {"ASCIIHexDecode", "ASCII85Decode"}

\* C9: for /Filter [A B] with A and B supported, decode_stream returns
\* A^-1(B^-1(raw)): B decodes the raw bytes and A decodes what B returned.
C9_FilterComposition ==
    (/\ pc = "done"
     /\ Len(stream.filters) = 2
     /\ SeqToSet(stream.filters) \subseteq SupportedFilters) =>
        LET inner == DecodeStreamXxDecode(stream.filters[2], stream.buf)
        IN decoded = IF inner.kind # "Ok" THEN inner
                     ELSE DecodeStreamXxDecode(stream.filters[1], inner.bytes)

\* buf with the byte c put in front of position p (p = Len(buf) + 1: at the end).
InsertAt(buf, p, c) == SubSeq(buf, 1, p - 1) \o <<c>> \o SubSeq(buf, p, Len(buf))

\* C10: ascii_85_decode skips whitespace: a whitespace byte inserted at any
\* position of the input leaves the decoded bytes as they are.
C10_WhitespaceInsertion ==
    (pc = "done" /\ stream.filters = <<"ASCII85Decode">>) =>
        \A p \in 1..(Len(stream.buf) + 1), c \in {32, 9, 13, 10} :
            Ascii85Decode(InsertAt(stream.buf, p, c)) = decoded.bytes

(***************************************************************************)
(* ascii_85_decode (filter.rs 21-52) on the encodings of byte strings.     *)
(***************************************************************************)
MaxBytes == 5    \* bytes in the encoded string

ByteValues == {0, 1, 111, 255}

\* The standard ASCII85 encoding, for the claims: a u32 [hi, lo] divided by
\* 85, its five base-85 digits as characters, and the encoding of a string.
DivMod85(v) ==
    [q |-> [hi |-> v.hi \div 85, lo |-> ((v.hi % 85) * 65536 + v.lo) \div 85],
     r |-> ((v.hi % 85) * 65536 + v.lo) % 85]

RECURSIVE Base85(_, _)
Base85(v, k) ==
    IF k = 0 THEN << >>
    ELSE Append(Base85(DivMod85(v).q, k - 1), DivMod85(v).r + 33)

ByteOr0(v, i) == IF i <= Len(v) THEN v[i] ELSE 0

RECURSIVE Ascii85Encode(_)
Ascii85Encode(v) ==
    IF v = << >> THEN << >>
    ELSE LET group == [hi |-> ByteOr0(v, 1) * 256 + ByteOr0(v, 2),
                       lo |-> ByteOr0(v, 3) * 256 + ByteOr0(v, 4)]
         IN IF Len(v) < 4 THEN SubSeq(Base85(group, 5), 1, Len(v) + 1)
            ELSE (IF group = [hi |-> 0, lo |-> 0] THEN <<122>> ELSE Base85(group, 5))
                     \o Ascii85Encode(SubSeq(v, 5, Len(v)))

Ascii85Inputs == SeqsUpTo(ByteValues, MaxBytes)

\* The decoder is handed the encoding of a byte string.
InitAscii85 ==
    /\ arg \in {Ascii85Encode(v) : v \in Ascii85Inputs}
    /\ ret = None
    /\ seq = [buf |-> << >>, pos |-> 0]
    /\ pc = "ready"
    /\ err = ""
    /\ secs = << >> /\ pos = 0 /\ catalog = None /\ info = None /\ xrefs = << >>
    /\ InitIdleTree /\ InitIdleRead /\ InitIdleFilter

CallFrame == UNCHANGED <<err, xrefs, nodes, xrefVars, treeVars, readVars, filterVars>>

\* ascii_85_decode(arg).
Ascii85DecodeCall ==
    /\ pc = "ready"
    /\ ret' = Ascii85Decode(arg)
    /\ pc' = "done"
    /\ UNCHANGED <<arg, seq>> /\ CallFrame

SpecAscii85 == InitAscii85 /\ [][Ascii85DecodeCall]_vars

\* C11: ascii_85_decode inverts the standard ASCII85 encoding: decoding the
\* encoding of a byte string v returns v.
C11_Ascii85RoundTrip ==
    pc = "done" => \A v \in Ascii85Inputs : arg = Ascii85Encode(v) => ret = v

(***************************************************************************)
(* hex2bytes (utils.rs 157-174) on hex digits and whitespace.              *)
(***************************************************************************)
MaxHexLen == 4    \* bytes handed to hex2bytes

\* LF, space, '0', '9', 'F', 'a'.
HexInputBytes == {10, 32, 48, 57, 70, 97}

InitHex ==
    /\ arg \in SeqsUpTo(HexInputBytes, MaxHexLen)
    /\ ret = None
    /\ seq = [buf |-> << >>, pos |-> 0]
    /\ pc = "ready"
    /\ err = ""
    /\ secs = << >> /\ pos = 0 /\ catalog = None /\ info = None /\ xrefs = << >>
    /\ InitIdleTree /\ InitIdleRead /\ InitIdleFilter

\* hex2bytes(arg) returns.
Hex2BytesReturn ==
    /\ pc = "ready"
    /\ Hex2Bytes(arg).kind = "Ok"
    /\ ret' = Hex2Bytes(arg)
    /\ pc' = "done"
    /\ UNCHANGED <<arg, seq>> /\ CallFrame

\* hex_map! panics inside hex2bytes(arg) (utils.rs 20).
Hex2BytesPanic ==
    /\ pc = "ready"
    /\ Hex2Bytes(arg).kind = "Panic"
    /\ ret' = Panic
    /\ pc' = "done"
    /\ UNCHANGED <<arg, seq>> /\ CallFrame

NextHex ==
    \/ Hex2BytesReturn
    \/ Hex2BytesPanic

SpecHex == InitHex /\ [][NextHex]_vars

\* The reference hex decoder, for the claims: whitespace is dropped, the
\* digits are paired most significant first, either case, and a trailing odd
\* digit gets a low zero nibble.
IsHexWhitespace(b) == b \in {0, 9, 10, 12, 13, 32}

RECURSIVE DropWhitespace(_)
DropWhitespace(bytes) ==
    IF bytes = << >> THEN << >>
    ELSE IF IsHexWhitespace(Head(bytes)) THEN DropWhitespace(Tail(bytes))
    ELSE <<Head(bytes)>> \o DropWhitespace(Tail(bytes))

DigitValue(b) ==
    IF b \in 48..57 THEN b - 48 ELSE IF b \in 65..70 THEN b - 55 ELSE b - 87

RECURSIVE PairDigits(_)
PairDigits(digits) ==
    IF digits = << >> THEN << >>
    ELSE IF Len(digits) = 1 THEN <<DigitValue(digits[1]) * 16>>
    ELSE <<DigitValue(digits[1]) * 16 + DigitValue(digits[2])>>
             \o PairDigits(SubSeq(digits, 3, Len(digits)))

ReferenceHexDecode(bytes) == PairDigits(DropWhitespace(bytes))

\* C12: hex2bytes equals the reference hex decoder on every input of hex
\* digits and whitespace.
C12_Hex2BytesIsReference ==
    pc = "done" => ret = Ok(ReferenceHexDecode(arg))

(***************************************************************************)
(* PDFVersion (vpdf.rs): TryFrom<&str> and Display, both generated from    *)
(* the table of pdf_version!.  A string is the sequence of its ASCII bytes. *)
(***************************************************************************)
MaxVersionLen == 4    \* characters of a candidate version string

\* '.', '0', '1', '2', '7', '8'.
VersionChars == {46, 48, 49, 50, 55, 56}

\* "M.m".
Dotted(major, minor) == <<48 + major, 46, 48 + minor>>

\* vpdf.rs 44-54, with 1.6 and 1.7 exchanged.
PDFVersionTableSwapped ==
    <<[name |-> "V1_0", version |-> Dotted(1, 0)], [name |-> "V1_1", version |-> Dotted(1, 1)],
      [name |-> "V1_2", version |-> Dotted(1, 2)], [name |-> "V1_3", version |-> Dotted(1, 3)],
      [name |-> "V1_4", version |-> Dotted(1, 4)], [name |-> "V1_5", version |-> Dotted(1, 5)],
      [name |-> "V1_6", version |-> Dotted(1, 7)], [name |-> "V1_7", version |-> Dotted(1, 6)],
      [name |-> "V2_0", version |-> Dotted(2, 0)]>>

\* vpdf.rs 44-54.
PDFVersionTable ==
    <<[name |-> "V1_0", version |-> Dotted(1, 0)], [name |-> "V1_1", version |-> Dotted(1, 1)],
      [name |-> "V1_2", version |-> Dotted(1, 2)], [name |-> "V1_3", version |-> Dotted(1, 3)],
      [name |-> "V1_4", version |-> Dotted(1, 4)], [name |-> "V1_5", version |-> Dotted(1, 5)],
      [name |-> "V1_6", version |-> Dotted(1, 6)], [name |-> "V1_7", version |-> Dotted(1, 7)],
      [name |-> "V2_0", version |-> Dotted(2, 0)]>>

\* The first arm of a match over the table that fits, 0 for the `_` arm.
FirstArm(hits) == IF hits = {} THEN 0 ELSE CHOOSE i \in hits : \A j \in hits : i <= j

\* TryFrom<&str> for PDFVersion (vpdf.rs 13-23).
VersionTryFrom(value) ==
    LET arm == FirstArm({i \in DOMAIN PDFVersionTable : PDFVersionTable[i].version = value})
    IN IF arm = 0 THEN [kind |-> "Err", variant |-> "", text |-> << >>]
       ELSE [kind |-> "Ok", variant |-> PDFVersionTable[arm].name, text |-> << >>]

\* Display for PDFVersion (vpdf.rs 32-40).
VersionToString(variant) ==
    PDFVersionTable[FirstArm({i \in DOMAIN PDFVersionTable :
                                 PDFVersionTable[i].name = variant})].version

InitVersion ==
    /\ arg \in SeqsUpTo(VersionChars, MaxVersionLen)
                  \cup {Dotted(1, minor) : minor \in 0..7}
    /\ ret = None
    /\ seq = [buf |-> << >>, pos |-> 0]
    /\ pc = "ready"
    /\ err = ""
    /\ secs = << >> /\ pos = 0 /\ catalog = None /\ info = None /\ xrefs = << >>
    /\ InitIdleTree /\ InitIdleRead /\ InitIdleFilter

\* PDFVersion::try_from(arg) is Ok.
VersionTryFromOk ==
    /\ pc = "ready"
    /\ VersionTryFrom(arg).kind = "Ok"
    /\ ret' = VersionTryFrom(arg)
    /\ pc' = "parsed"
    /\ UNCHANGED <<arg, seq>> /\ CallFrame

\* PDFVersion::try_from(arg) is Err(INVALID_PDF_VERSION).
VersionTryFromErr ==
    /\ pc = "ready"
    /\ VersionTryFrom(arg).kind = "Err"
    /\ ret' = VersionTryFrom(arg)
    /\ pc' = "err"
    /\ UNCHANGED <<arg, seq>> /\ CallFrame

\* to_string() of the variant try_from returned.
VersionDisplay ==
    /\ pc = "parsed"
    /\ ret' = [ret EXCEPT !.text = VersionToString(ret.variant)]
    /\ pc' = "done"
    /\ UNCHANGED <<arg, seq>> /\ CallFrame

NextVersion ==
    \/ VersionTryFromOk
    \/ VersionTryFromErr
    \/ VersionDisplay

SpecVersion == InitVersion /\ [][NextVersion]_vars

\* The nine supported version strings and the variant each one names.
SupportedVersions ==
    {<<Dotted(1, minor), <<"V1_0", "V1_1", "V1_2", "V1_3", "V1_4", "V1_5", "V1_6", "V1_7">>[minor + 1]>> :
        minor \in 0..7} \cup {<<Dotted(2, 0), "V2_0">>}

\* C13: each of the nine supported version strings converts to the matching
\* variant, and formatting that variant gives the string back; every other
\* string is rejected with an error.
C13_VersionRoundTrip ==
    /\ pc \in {"parsed", "done"} => <<arg, ret.variant>> \in SupportedVersions
    /\ pc = "done" => ret.text = arg
    /\ pc = "err" => ret.kind = "Err" /\ \A sv \in SupportedVersions : sv[1] # arg

\* "1.7" was converted to V1_7 and formatted.
C13_Witness ==
    pc = "done" /\ arg = Dotted(1, 7) /\ ret.variant = "V1_7" /\ ret.text = Dotted(1, 7)

(***************************************************************************)
(* cal_xref_table_offset (document.rs 265-303).  Offsets and indexes are   *)
(* counted from 0 as in the code; byte i of a slice is slice[i + 1].       *)
(***************************************************************************)
WindowLen == 16    \* bytes of the tail that are scanned (1024, document.rs 267-268)

\* "startxref" (constants.rs 44).
StartXref == <<115, 116, 97, 114, 116, 120, 114, 101, 102>>

\* utils.rs line_ending.
LineEnding(b) == b = 13 \/ b = 10

\* literal_to_u64 (utils.rs 95-103) on bytes from '0' upwards.
RECURSIVE LiteralToU64(_)
LiteralToU64(bytes) ==
    IF bytes = << >> THEN 0
    ELSE LiteralToU64(SubSeq(bytes, 1, Len(bytes) - 1)) * 10 + (bytes[Len(bytes)] - 48)

\* count_leading_line_endings (utils.rs 118-127).
RECURSIVE CountLeadingLineEndings(_)
CountLeadingLineEndings(bytes) ==
    IF bytes = << >> THEN 0
    ELSE IF ~LineEnding(Head(bytes)) THEN 0
    ELSE 1 + CountLeadingLineEndings(Tail(bytes))

\* For the claims: the start of the last contiguous occurrence of the
\* keyword at or before index i, or n (tx is not used).
RECURSIVE ScanBackContiguous(_, _, _)
ScanBackContiguous(buf, i, tx) ==
    IF i < 0 THEN Len(buf)
    ELSE IF i + Len(StartXref) <= Len(buf)
            /\ SubSeq(buf, i + 1, i + Len(StartXref)) = StartXref THEN i
    ELSE ScanBackContiguous(buf, i - 1, tx)

\* The loop of document.rs 274-283 from index i down, tx bytes of the
\* keyword still unmatched: the index it breaks at, or n.
RECURSIVE ScanBack(_, _, _)
ScanBack(buf, i, tx) ==
    IF i < 0 THEN Len(buf)
    ELSE IF StartXref[tx] = buf[i + 1]
         THEN (IF tx - 1 = 0 THEN i ELSE ScanBack(buf, i - 1, tx - 1))
         ELSE ScanBack(buf, i - 1, tx)

\* document.rs 288-302: the digits between the line endings after the
\* keyword that was found at `found`.
OffsetAfter(buf, found) ==
    LET n == Len(buf)
        index == found + Len(StartXref)
        start == index + CountLeadingLineEndings(SubSeq(buf, index + 1, n))
        ends == {i \in start..(n - 1) : LineEnding(buf[i + 1])}
        end == IF ends = {} THEN 0 ELSE CHOOSE i \in ends : \A j \in ends : i <= j
    IN IF end = 0 \/ start = end THEN [kind |-> "Err", offset |-> 0]
       ELSE [kind |-> "Ok", offset |-> LiteralToU64(SubSeq(buf, start + 1, end))]

\* document.rs 266-270: the last WindowLen bytes, or the whole file.
TailWindow(bytes) ==
    LET size == Len(bytes)
        p == IF size > WindowLen THEN size - WindowLen ELSE 0
    IN SubSeq(bytes, p + 1, size)

CalXrefTableOffset(bytes) ==
    LET buf == TailWindow(bytes)
        index == ScanBack(buf, Len(buf) - 1, Len(StartXref))
    IN IF index = Len(buf) THEN [kind |-> "Err", offset |-> 0]
       ELSE OffsetAfter(buf, index)

\* The keyword with a byte 'q' after the letters that gaps marks.
RECURSIVE Scattered(_, _)
Scattered(gaps, i) ==
    IF i > Len(StartXref) THEN << >>
    ELSE <<StartXref[i]>> \o (IF i \in gaps THEN <<113>> ELSE << >>)
             \o Scattered(gaps, i + 1)

\* What may stand before the keyword: nothing, or an older "startxref LF 7 LF".
XrefPrefixes == {<< >>, StartXref \o <<10, 55, 10>>}
\* What may follow it: LF 5 LF, CR LF 5 CR LF, 5 LF, LF 5, nothing.
XrefTails == {<<10, 53, 10>>, <<13, 10, 53, 13, 10>>, <<53, 10>>, <<10, 53>>, << >>}

InitStartXref ==
    /\ \E prefix \in XrefPrefixes, gaps \in SUBSET (1..(Len(StartXref) - 1)),
          tail \in XrefTails :
          arg = prefix \o Scattered(gaps, 1) \o tail
    /\ ret = None
    /\ seq = [buf |-> << >>, pos |-> 0]
    /\ pc = "ready"
    /\ err = ""
    /\ secs = << >> /\ pos = 0 /\ catalog = None /\ info = None /\ xrefs = << >>
    /\ InitIdleTree /\ InitIdleRead /\ InitIdleFilter

\* cal_xref_table_offset returns Ok(offset).
CalOffsetOk ==
    /\ pc = "ready"
    /\ CalXrefTableOffset(arg).kind = "Ok"
    /\ ret' = CalXrefTableOffset(arg)
    /\ pc' = "done"
    /\ UNCHANGED <<arg, seq>> /\ CallFrame

\* cal_xref_table_offset returns Err(InvalidPDFDocument) (document.rs 286, 299).
CalOffsetInvalid ==
    /\ pc = "ready"
    /\ CalXrefTableOffset(arg).kind = "Err"
    /\ ret' = CalXrefTableOffset(arg)
    /\ pc' = "err"
    /\ UNCHANGED <<arg, seq>> /\ CallFrame

NextStartXref ==
    \/ CalOffsetOk
    \/ CalOffsetInvalid

SpecStartXref == InitStartXref /\ [][NextStartXref]_vars

\* C14: the keyword is recognised only as the contiguous bytes `startxref`
\* inside the scanned tail: when there is such an occurrence the offset is
\* read from directly after the last one, and when there is none the call
\* fails with InvalidPDFDocument.
C14_ContiguousKeyword ==
    pc \in {"done", "err"} =>
        LET buf == TailWindow(arg)
            last == ScanBackContiguous(buf, Len(buf) - 1, Len(StartXref))
        IN IF last = Len(buf) THEN ret.kind = "Err"
           ELSE ret = OffsetAfter(buf, last)

(***************************************************************************)
(* FileSequence (sequence.rs): the file's bytes, the position of the       *)
(* underlying File and the read-ahead buffer buf that read_line fills.     *)
(***************************************************************************)
SeqFileLen == 4    \* bytes in the file
SeqChunk == 2      \* bytes one read_line refill asks for (1024, sequence.rs 56)
MaxRead == 2       \* largest destination buffer handed to read

\* 'a', LF, CR.
SeqBytes == {97, 10, 13}

Min(a, b) == IF a <= b THEN a ELSE b

\* What an operation returns, with the sequence it leaves behind.
SeqReturned(op, kind, bytes, sq) == [op |-> op, kind |-> kind, bytes |-> bytes, seq |-> sq]

\* File::read into a buffer of n bytes.
FileRead(sq, n) == SubSeq(file, sq.pos + 1, sq.pos + Min(n, Len(file) - sq.pos))

\* FileSequence::read (sequence.rs 42-52) into a buffer of n bytes.
FileSequenceRead(sq, n) ==
    IF sq.buf # << >>
    THEN SeqReturned("read", "Ok", SubSeq(sq.buf, 1, Min(Len(sq.buf), n)),
                     [sq EXCEPT !.buf = SubSeq(@, Min(Len(@), n) + 1, Len(@))])
    ELSE SeqReturned("read", "Ok", FileRead(sq, n),
                     [sq EXCEPT !.pos = @ + Len(FileRead(sq, n))])

\* FileSequence::seek (sequence.rs 87-95) with the buffer left as it is.
FileSequenceSeekKeepBuf(sq, p) ==
    IF Len(file) < p THEN SeqReturned("seek", "SeekExceed", << >>, sq)
    ELSE SeqReturned("seek", "Ok", << >>, [sq EXCEPT !.pos = p])

\* FileSequence::seek (sequence.rs 87-95).
FileSequenceSeek(sq, p) ==
    IF Len(file) < p THEN SeqReturned("seek", "SeekExceed", << >>, sq)
    ELSE SeqReturned("seek", "Ok", << >>, [buf |-> << >>, pos |-> p])

\* split_line_data (sequence.rs 29-38): the line, and buf after the line
\* and every line ending that follows it.
SplitLineData(buf, index) ==
    LET rest == SubSeq(buf, index + 1, Len(buf))
    IN [line |-> SubSeq(buf, 1, index),
        buf |-> SubSeq(rest, CountLeadingLineEndings(rest) + 1, Len(rest))]

\* The loop of read_line (sequence.rs 58-77) with its locals tmp and bytes.
RECURSIVE ReadLineLoop(_, _, _)
ReadLineLoop(sq, tmp, bytes) ==
    LET len == Len(sq.buf)
        hits == {i \in tmp..(len - 1) : LineEnding(sq.buf[i + 1])}
        chunk == FileRead(sq, SeqChunk)
        n == Len(chunk)
        filled == chunk \o SubSeq(bytes, n + 1, SeqChunk)
        offset == IF len = 0 THEN CountLeadingLineEndings(filled) ELSE 0
    IN IF hits # {}
       THEN LET split == SplitLineData(sq.buf, CHOOSE i \in hits : \A j \in hits : i <= j)
            IN SeqReturned("read_line", "Ok", split.line, [sq EXCEPT !.buf = split.buf])
       ELSE IF n = 0 THEN SeqReturned("read_line", "EOF", << >>, sq)
       ELSE IF offset > n THEN SeqReturned("read_line", "Panic", << >>, sq)
       ELSE ReadLineLoop([buf |-> sq.buf \o SubSeq(filled, offset + 1, n), pos |-> sq.pos + n],
                         len, filled)

\* FileSequence::read_line (sequence.rs 54-78).
FileSequenceReadLine(sq) == ReadLineLoop(sq, 0, [i \in 1..SeqChunk |-> 0])

\* FileSequence::new over a file.
InitSeq ==
    /\ file \in SeqsUpTo(SeqBytes, SeqFileLen)
    /\ seq = [buf |-> << >>, pos |-> 0]
    /\ ret = SeqReturned("new", "Ok", << >>, seq)
    /\ arg = [given |-> 0, at |-> 0, stale |-> FALSE]
    /\ tok = [buf |-> << >>, token_buf |-> << >>, spos |-> 0]
    /\ result = None
    /\ pc = "ready"
    /\ err = ""
    /\ secs = << >> /\ pos = 0 /\ catalog = None /\ info = None /\ xrefs = << >>
    /\ InitIdleTree /\ InitIdleFilter

SeqFrame ==
    UNCHANGED <<pc, err, xrefs, nodes, file, tok, result, xrefVars, treeVars, filterVars>>

\* One call: what it was given, where in the file the sequence stood (the
\* bytes of buf are the last bytes the File has read) and whether buf held
\* read-ahead bytes; what it returned; the sequence after it.
SeqStep(given, returned) ==
    /\ pc = "ready"
    /\ arg' = [given |-> given, at |-> seq.pos - Len(seq.buf), stale |-> seq.buf # << >>]
    /\ ret' = returned
    /\ seq' = returned.seq
    /\ SeqFrame

SeqReadCall ==
    \E n \in 1..MaxRead :
        FileSequenceRead(seq, n).kind = "Ok" /\ SeqStep(n, FileSequenceRead(seq, n))

SeqReadLineOk ==
    FileSequenceReadLine(seq).kind = "Ok" /\ SeqStep(0, FileSequenceReadLine(seq))
SeqReadLineEof ==
    FileSequenceReadLine(seq).kind = "EOF" /\ SeqStep(0, FileSequenceReadLine(seq))
SeqReadLinePanic ==
    FileSequenceReadLine(seq).kind = "Panic" /\ SeqStep(0, FileSequenceReadLine(seq))

SeqSeekOk ==
    \E p \in 0..(SeqFileLen + 1) :
        FileSequenceSeek(seq, p).kind = "Ok" /\ SeqStep(p, FileSequenceSeek(seq, p))
SeqSeekExceed ==
    \E p \in 0..(SeqFileLen + 1) :
        FileSequenceSeek(seq, p).kind = "SeekExceed" /\ SeqStep(p, FileSequenceSeek(seq, p))

NextSeq ==
    \/ SeqReadCall
    \/ SeqReadLineOk
    \/ SeqReadLineEof
    \/ SeqReadLinePanic
    \/ SeqSeekOk
    \/ SeqSeekExceed

SpecSeq == InitSeq /\ [][NextSeq]_vars

(***************************************************************************)
(* Claims about the byte sequence.                                         *)
(***************************************************************************)

\* C15: seek(pos) fails with SeekExceed exactly when pos > size(); after a
\* successful seek the read-ahead buffer is empty and the next read returns
\* the bytes of the file from offset pos on, whatever calls came before.
C15_SeekThenRead ==
    (pc = "ready" /\ ret.op = "seek") =>
        /\ ret.kind = "SeekExceed" <=> arg.given > Len(file)
        /\ ret.kind = "Ok" =>
              /\ seq.buf = << >>
              /\ \A n \in 1..MaxRead :
                    FileSequenceRead(seq, n).bytes
                        = SubSeq(file, arg.given + 1, Min(arg.given + n, Len(file)))

\* A seek into the middle of the file that found read-ahead bytes in buf.
C15_Witness ==
    /\ pc = "ready"
    /\ ret.op = "seek"
    /\ ret.kind = "Ok"
    /\ arg.stale
    /\ arg.given > 0
    /\ arg.given < Len(file)

\* The line that starts at offset p of the file, for the claims: the bytes
\* up to the next CR or LF, and the offset after that terminator (CR LF is
\* one terminator); EOF when no terminator follows.
ReferenceLine(p) ==
    LET ends == {i \in p..(Len(file) - 1) : LineEnding(file[i + 1])}
        end == CHOOSE i \in ends : \A j \in ends : i <= j
    IN IF ends = {} THEN [kind |-> "EOF", bytes |-> << >>, next |-> p]
       ELSE [kind |-> "Ok", bytes |-> SubSeq(file, p + 1, end),
             next |-> IF file[end + 1] = 13 /\ end + 1 < Len(file) /\ file[end + 2] = 10
                      THEN end + 2 ELSE end + 1]

\* C16: read_line returns exactly the bytes from the current position up to
\* the next line terminator and consumes that terminator (an empty line is
\* an empty result); it fails with EOF when no terminator follows.
C16_ReadLineIsNextLine ==
    (pc = "ready" /\ ret.op = "read_line") =>
        /\ ret.kind = ReferenceLine(arg.at).kind
        /\ ret.kind = "Ok" =>
              /\ ret.bytes = ReferenceLine(arg.at).bytes
              /\ seq.pos - Len(seq.buf) = ReferenceLine(arg.at).next

(***************************************************************************)
(* An outline /Title given as a hexadecimal string (pstr.rs, objects.rs).  *)
(* A String is the sequence of its code points.                            *)
(***************************************************************************)
MaxTitleLen == 5    \* bytes of the title after the byte order mark

\* 00, 'H', 'i', D8 (the high byte of a surrogate).
TitleBytes == {0, 72, 105, 216}

HexDigit(n) == IF n < 10 THEN 48 + n ELSE 55 + n

\* The digits between < and > for these bytes.
RECURSIVE HexText(_)
HexText(bytes) ==
    IF bytes = << >> THEN << >>
    ELSE <<HexDigit(Head(bytes) \div 16), HexDigit(Head(bytes) % 16)>> \o HexText(Tail(bytes))

\* The parsed string: kind Hexadecimal, buf the bytes of the digit pairs.
HexPDFString(digits) == [kind |-> "Hexadecimal", buf |-> Hex2Bytes(digits).bytes]

\* PDFString::is_utf16be (objects.rs 514-519).
IsUtf16be(str) ==
    IF str.kind = "Literal" THEN FALSE
    ELSE Len(str.buf) >= 2 /\ SubSeq(str.buf, 1, 2) = <<254, 255>>

\* buf[2..].chunks_exact(2) mapped through u16::from_be_bytes (pstr.rs 36-39).
RECURSIVE Utf16Units(_)
Utf16Units(bytes) ==
    IF Len(bytes) < 2 THEN << >>
    ELSE <<bytes[1] * 256 + bytes[2]>> \o Utf16Units(SubSeq(bytes, 3, Len(bytes)))

\* String::from_utf16: a high surrogate needs a low one after it, a low one
\* alone is an error; the pair is one code point.
RECURSIVE FromUtf16(_)
FromUtf16(units) ==
    IF units = << >> THEN [ok |-> TRUE, text |-> << >>]
    ELSE IF Head(units) \in 55296..56319
    THEN IF Len(units) >= 2 /\ units[2] \in 56320..57343
         THEN LET rest == FromUtf16(SubSeq(units, 3, Len(units)))
              IN [ok |-> rest.ok,
                  text |-> <<65536 + (units[1] - 55296) * 1024 + (units[2] - 56320)>>
                               \o rest.text]
         ELSE [ok |-> FALSE, text |-> << >>]
    ELSE IF Head(units) \in 56320..57343 THEN [ok |-> FALSE, text |-> << >>]
    ELSE [ok |-> FromUtf16(Tail(units)).ok, text |-> <<Head(units)>> \o FromUtf16(Tail(units)).text]

\* to_utf16be_text (pstr.rs 31-45).
ToUtf16beText(str) ==
    IF Len(str.buf) >= 2 /\ Len(str.buf) % 2 = 0
    THEN LET s == FromUtf16(Utf16Units(SubSeq(str.buf, 3, Len(str.buf))))
         IN IF s.ok THEN s.text ELSE << >>
    ELSE << >>

\* The title <FEFF...>: the byte order mark and up to MaxTitleLen bytes.
InitTitle ==
    /\ arg \in {HexText(<<254, 255>> \o body) : body \in SeqsUpTo(TitleBytes, MaxTitleLen)}
    /\ ret = None
    /\ seq = [buf |-> << >>, pos |-> 0]
    /\ pc = "ready"
    /\ err = ""
    /\ secs = << >> /\ pos = 0 /\ catalog = None /\ info = None /\ xrefs = << >>
    /\ InitIdleTree /\ InitIdleRead /\ InitIdleFilter

\* convert_glyph_text (pstr.rs 14-18) on a string that is_utf16be.
TitleStep ==
    /\ pc = "ready"
    /\ IsUtf16be(HexPDFString(arg))
    /\ ret' = ToUtf16beText(HexPDFString(arg))
    /\ pc' = "done"
    /\ UNCHANGED <<arg, seq>> /\ CallFrame

\* pstr.rs 35-40: an even number of bytes that are well-formed UTF-16.
TitleUtf16 ==
    /\ Len(HexPDFString(arg).buf) % 2 = 0
    /\ FromUtf16(Utf16Units(SubSeq(HexPDFString(arg).buf, 3, Len(HexPDFString(arg).buf)))).ok
    /\ TitleStep
\* pstr.rs 40: from_utf16 fails and unwrap_or_default gives "".
TitleIllFormed ==
    /\ Len(HexPDFString(arg).buf) % 2 = 0
    /\ ~FromUtf16(Utf16Units(SubSeq(HexPDFString(arg).buf, 3, Len(HexPDFString(arg).buf)))).ok
    /\ TitleStep
\* pstr.rs 41-44: an odd number of bytes.
TitleOddLength ==
    /\ Len(HexPDFString(arg).buf) % 2 = 1
    /\ TitleStep

NextTitle ==
    \/ TitleUtf16
    \/ TitleIllFormed
    \/ TitleOddLength

SpecTitle == InitTitle /\ [][NextTitle]_vars

\* C17: a hexadecimal /Title that begins with FE FF is decoded as UTF-16BE
\* text of the bytes after the byte order mark; <FEFF0048006900> is "Hi".
C17_Utf16beTitle ==
    pc = "done" =>
        /\ arg = HexText(<<254, 255, 0, 72, 0, 105, 0>>) => ret = <<72, 105>>
        /\ \A body \in SeqsUpTo(TitleBytes \ {216}, MaxTitleLen) :
              arg = HexText(<<254, 255>> \o body) => ret = Utf16Units(body)

(***************************************************************************)
(* Date::from_str (date.rs).  A text is the sequence of its bytes.  The    *)
(* field `millisecond` of a Date is 1000 * seconds modulo 2^64; the model  *)
(* keeps `seconds`.                                                        *)
(***************************************************************************)
MaxClockLen == 10    \* the digits of MMDDHHmmSS

IsDigit(b) == b \in 48..57

\* str::parse for an integer: an optional sign ('-' for signed types only)
\* and at least one digit; None when the text is anything else.
RECURSIVE DigitsValue(_, _)
DigitsValue(s, acc) ==
    IF s = << >> THEN acc ELSE DigitsValue(Tail(s), acc * 10 + (Head(s) - 48))

ParseInt(s, signed) ==
    LET sign   == s # << >> /\ (Head(s) = 43 \/ (signed /\ Head(s) = 45))
        digits == IF sign THEN Tail(s) ELSE s
    IN IF digits = << >> \/ \E i \in 1..Len(digits) : ~IsDigit(digits[i]) THEN None
       ELSE IF sign /\ Head(s) = 45 THEN Some(0 - DigitsValue(digits, 0))
       ELSE Some(DigitsValue(digits, 0))

\* parse_part (date.rs 123-127): text.get(from..to), parsed as u8, or 0.
ParsePart(text, from, to) ==
    IF from <= to /\ to <= Len(text)
    THEN LET v == ParseInt(SubSeq(text, from + 1, to), FALSE)
         IN IF IsSome(v) THEN Get(v) ELSE 0
    ELSE 0

IsLeapYear(year) == (year % 4 = 0 /\ year % 100 # 0) \/ year % 400 = 0

\* date.rs 71-73: the days of the years 1970 .. year - 1.
RECURSIVE DaysOfYears(_, _)
DaysOfYears(y, year) ==
    IF y >= year THEN 0
    ELSE (IF IsLeapYear(y) THEN 366 ELSE 365) + DaysOfYears(y + 1, year)

DAYS_IN_MONTH == <<31, 28, 31, 30, 31, 30, 31, 31, 30, 31, 30, 31>>

\* date.rs 76-83: the days of the months 1 .. month - 1.
RECURSIVE DaysOfMonths(_, _, _)
DaysOfMonths(m, month, year) ==
    IF m >= month THEN 0
    ELSE DAYS_IN_MONTH[m] + (IF m = 2 /\ IsLeapYear(year) THEN 1 ELSE 0)
             + DaysOfMonths(m + 1, month, year)

DateErr == [kind |-> "IllegalDateFormat", time_zero |-> 0, seconds |-> 0]
DatePanic == [kind |-> "Panic", time_zero |-> 0, seconds |-> 0]

\* Date::new and calculate_unix_timestamp_millis (date.rs 35-103).  A build
\* with overflow checks panics where the other build wraps: `day - 1` on a
\* u8 of 0, and the multiplication by 1000 of a negative number of seconds
\* cast to u64.  DAYS_IN_MONTH[m - 1] is out of bounds from m = 13 on.
DateNew(year, month, day, hour, minute, second, time_zero, utm, build) ==
    IF month >= 14 THEN DatePanic
    ELSE IF day = 0 /\ build = "debug" THEN DatePanic
    ELSE LET days  == DaysOfYears(1970, year) + DaysOfMonths(1, month, year)
                          + (IF day = 0 THEN 255 ELSE day - 1)
             total == days * 86400 + hour * 3600 + minute * 60 + second
                          - time_zero * 3600
         IN IF total < 0 /\ build = "debug" THEN DatePanic
            ELSE [kind |-> "Ok", time_zero |-> time_zero, seconds |-> total + utm * 60]

\* from_str (date.rs 132-170).
DateFromStr(text, build) ==
    LET length == Len(text)
    IN IF length < 6 \/ SubSeq(text, 1, 2) # <<68, 58>> THEN DateErr
       ELSE
       LET y      == ParseInt(SubSeq(text, 3, 6), TRUE)
           year   == IF IsSome(y) THEN Get(y) ELSE 0
           month  == ParsePart(text, 6, 8)
           day    == ParsePart(text, 8, 10)
           hour   == ParsePart(text, 10, 12)
           minute == ParsePart(text, 12, 14)
           second == ParsePart(text, 14, 16)
       IN IF length >= 17
          THEN LET tmp        == text[17]
                   plus_sign  == tmp = 43
                   minus_sign == tmp = 45
                   rejected   == IF tmp = 90 THEN FALSE
                                 ELSE ~plus_sign \/ minus_sign \/ length < 19
                   index      == IF tmp = 90 THEN 17 ELSE 19
                   tz         == ParsePart(text, 17, 19)
                   time_zero  == IF tmp = 90 THEN 0
                                 ELSE IF minus_sign THEN 0 - tz ELSE tz
               IN IF rejected THEN DateErr
                  ELSE IF length > index /\ index + 3 # length THEN DateErr
                  ELSE DateNew(year, month, day, hour, minute, second, time_zero,
                               ParsePart(text, index + 1, length), build)
          ELSE DateNew(year, month, day, hour, minute, second, 0, 0, build)

\* "2024", "1999" and "2o24".
DateYears == {<<50, 48, 50, 52>>, <<49, 57, 57, 57>>, <<50, 111, 50, 52>>}
\* "0229123456" and "1231235959".
DateClocks == {<<48, 50, 50, 57, 49, 50, 51, 52, 53, 54>>,
               <<49, 50, 51, 49, 50, 51, 53, 57, 53, 57>>}
\* none, "Z", "+05'30", "-05'30", "X" and "+05'30'".
DateZones == {<< >>, <<90>>, <<43, 48, 53, 39, 51, 48>>, <<45, 48, 53, 39, 51, 48>>,
              <<88>>, <<43, 48, 53, 39, 51, 48, 39>>}

\* The k-th two-digit field of a leading part of MMDDHHmmSS, or its default.
ClockField(clock, k, default) ==
    IF Len(clock) >= 2 * k
    THEN (clock[2 * k - 1] - 48) * 10 + (clock[2 * k] - 48)
    ELSE default

ZoneHours(zone) ==
    IF Len(zone) < 6 THEN 0
    ELSE (IF zone[1] = 45 THEN 0 - 1 ELSE 1) * ((zone[2] - 48) * 10 + (zone[3] - 48))

ZoneMinutes(zone) == IF Len(zone) < 6 THEN 0 ELSE (zone[5] - 48) * 10 + (zone[6] - 48)

\* A date text and how it reads: "date" is D:YYYY, whole fields of
\* MMDDHHmmSS and a timezone Z, +HH'mm, -HH'mm or none; "other" has a year
\* or a timezone indicator that is none of these; the rest is "open".
DateInput(year, clock, zone, build) ==
    [text  |-> <<68, 58>> \o year \o clock \o zone,
     build |-> build,
     shape |-> IF \E i \in 1..4 : ~IsDigit(year[i]) THEN "other"
               ELSE IF zone = <<88>> THEN "other"
               ELSE IF Len(clock) % 2 = 1 \/ Len(zone) = 7 THEN "open"
               ELSE "date",
     want  |-> <<DigitsValue(SelectSeq(year, IsDigit), 0),
                 ClockField(clock, 1, 1), ClockField(clock, 2, 1),
                 ClockField(clock, 3, 0), ClockField(clock, 4, 0),
                 ClockField(clock, 5, 0), ZoneHours(zone), ZoneMinutes(zone)>>]

InitDate ==
    /\ arg \in {DateInput(year, SubSeq(clock, 1, n), zone, build) :
                   year \in DateYears, clock \in DateClocks, n \in 0..MaxClockLen,
                   zone \in DateZones, build \in {"debug", "release"}}
    /\ ret = None
    /\ seq = [buf |-> << >>, pos |-> 0]
    /\ pc = "ready"
    /\ err = ""
    /\ secs = << >> /\ pos = 0 /\ catalog = None /\ info = None /\ xrefs = << >>
    /\ InitIdleTree /\ InitIdleRead /\ InitIdleFilter

DateStep(kind) ==
    /\ pc = "ready"
    /\ DateFromStr(arg.text, arg.build).kind = kind
    /\ ret' = DateFromStr(arg.text, arg.build)
    /\ pc' = "done"
    /\ UNCHANGED <<arg, seq>> /\ CallFrame

DateFromStrOk ==
    /\ arg.text # << >>
    /\ DateStep("Ok")
DateFromStrErr ==
    /\ arg.text # << >>
    /\ DateStep("IllegalDateFormat")
DateFromStrPanic ==
    /\ arg.text # << >>
    /\ DateStep("Panic")

NextDate ==
    \/ DateFromStrOk
    \/ DateFromStrErr
    \/ DateFromStrPanic

SpecDate == InitDate /\ [][NextDate]_vars

\* C18: from_str accepts D:YYYY, a leading part of MMDDHHmmSS and an
\* optional timezone Z, +HH'mm or -HH'mm; a missing month or day is 1, a
\* missing hour, minute or second is 0, no timezone is UTC and '-' gives a
\* negative offset; every other structure is IllegalDateFormat.
C18_DateFromStr ==
    pc = "done" =>
        /\ arg.shape = "date" =>
              ret = DateNew(arg.want[1], arg.want[2], arg.want[3], arg.want[4],
                            arg.want[5], arg.want[6], arg.want[7], arg.want[8],
                            arg.build)
        /\ arg.shape = "other" => ret.kind = "IllegalDateFormat"

(***************************************************************************)
(* The Tokenizer's operations in any order (tokenizer.rs 137-170,          *)
(* 323-352), over a file of one lexeme per offset.                         *)
(***************************************************************************)
TokFileLen == 3     \* lexemes in the file
MaxPushback == 2    \* check calls are made while token_buf is shorter
MaxReadLen == 2     \* the largest len given to read_bytes

\* read_bytes (tokenizer.rs 330-352): from buf when it holds len cells,
\* else buf and a read of the missing cells; token_buf is cleared.
ReadBytes(tk, len) ==
    IF Len(tk.buf) >= len
    THEN [bytes |-> SubSeq(tk.buf, 1, len),
          tok |-> [tk EXCEPT !.buf = SubSeq(@, len + 1, Len(@)), !.token_buf = << >>]]
    ELSE LET rd == SequenceRead(tk, len - Len(tk.buf))
         IN [bytes |-> tk.buf \o rd.bytes,
             tok |-> [rd.tok EXCEPT !.buf = << >>, !.token_buf = << >>]]

\* read_bytes (tokenizer.rs 334-344) when its one call of Sequence::read
\* returns n bytes, fewer than asked for: the bytes are not asked for again.
ReadBytesShort(tk, len, n) ==
    [bytes |-> tk.buf \o SubSeq(file, tk.spos + 1, tk.spos + n),
     tok |-> [buf |-> << >>, token_buf |-> << >>, spos |-> tk.spos + n]]

\* The offset of the lexeme next_chr takes; the file's length at its end.
FreshAt(tk) ==
    LET c == NextChr(tk)
    IN IF c.chr = Eof THEN Len(file) ELSE c.tok.spos - Len(c.tok.buf) - 1

\* What the last call returned (arg is the cache flag and the closure a
\* check was given): the call's name, for a check the cache flag and the result m,
\* the token it returned or tested, the offset that token was read from
\* (-1 when it came from token_buf; for seek the offset given) and token_buf
\* as the call found it.
TokReturned(op, cache, m, token, at, before) ==
    [op |-> op, cache |-> cache, m |-> m, token |-> token, at |-> at, before |-> before]

InitTok ==
    /\ file \in [1..TokFileLen -> {"num", "R", "obj"}]
    /\ tok = FreshTokenizer
    /\ ret = TokReturned("new", FALSE, FALSE, "", 0 - 1, << >>)
    /\ arg = None
    /\ seq = [buf |-> << >>, pos |-> 0]
    /\ result = None
    /\ pc = "ready"
    /\ err = ""
    /\ secs = << >> /\ pos = 0 /\ catalog = None /\ info = None /\ xrefs = << >>
    /\ InitIdleTree /\ InitIdleFilter

TokFrame ==
    UNCHANGED <<pc, err, xrefs, nodes, file, result, seq, xrefVars, treeVars, filterVars>>

TokNextToken ==
    /\ tok' = NextToken(tok).tok
    /\ ret' = TokReturned("next_token", FALSE, FALSE, NextToken(tok).token,
                          IF tok.token_buf # << >> THEN 0 - 1 ELSE FreshAt(tok),
                          tok.token_buf)
    /\ arg' = None
    /\ TokFrame

TokCheck(cache, func) ==
    /\ Len(tok.token_buf) < MaxPushback
    /\ tok' = CheckNextToken0(tok, cache, func).tok
    /\ ret' = TokReturned("check", cache, CheckNextToken0(tok, cache, func).m,
                          CheckNextToken0(tok, cache, func).token, FreshAt(tok),
                          tok.token_buf)
    /\ arg' = [cache |-> cache, func |-> func]
    /\ TokFrame

\* check_next_token (tokenizer.rs 137-142).
TokCheckNextToken ==
    \E func \in {IsNumber, IsROrObj} :
        /\ func # {}
        /\ TokCheck(TRUE, func)

\* check_next_token0(false, func).
TokCheckNextToken0 ==
    \E func \in {IsNumber, IsROrObj} :
        /\ func # {}
        /\ TokCheck(FALSE, func)

\* read_bytes: arg is the len given, the offset the tokenizer stood at and
\* the bytes returned.
TokReadBytes ==
    \E len \in 0..MaxReadLen :
        /\ tok' = ReadBytes(tok, len).tok
        /\ ret' = TokReturned("read_bytes", FALSE, FALSE, "", 0 - 1, tok.token_buf)
        /\ arg' = [len |-> len, at |-> tok.spos - Len(tok.buf),
                   bytes |-> ReadBytes(tok, len).bytes]
        /\ TokFrame

\* read_bytes when Sequence::read returns n bytes, fewer than the buffer
\* it was given and fewer than the file still holds.
TokReadBytesShort ==
    \E len \in 0..MaxReadLen, n \in 1..MaxReadLen :
        /\ Len(tok.buf) < len
        /\ n < len - Len(tok.buf)
        /\ n < Len(file) - tok.spos
        /\ tok' = ReadBytesShort(tok, len, n).tok
        /\ ret' = TokReturned("read_bytes", FALSE, FALSE, "", 0 - 1, tok.token_buf)
        /\ arg' = [len |-> len, at |-> tok.spos - Len(tok.buf),
                   bytes |-> ReadBytesShort(tok, len, n).bytes]
        /\ TokFrame

TokSeek ==
    \E offset \in 0..TokFileLen + 1 :
        /\ tok' = TokenizerSeek(tok, offset).tok
        /\ ret' = TokReturned("seek", FALSE, TokenizerSeek(tok, offset).ok, "", offset,
                              tok.token_buf)
        /\ arg' = None
        /\ TokFrame

NextTok ==
    \/ TokNextToken
    \/ TokCheckNextToken
    \/ TokCheckNextToken0
    \/ TokReadBytes
    \/ TokReadBytesShort
    \/ TokSeek

SpecTok == InitTok /\ [][NextTok]_vars

\* C19: in every reachable tokenizer state the token pushback holds at most
\* one token, for any sequence of next_token, check_next_token,
\* check_next_token0, read_bytes and seek calls.
C19_OneTokenLookahead == Len(tok.token_buf) <= 1

\* C20: check_next_token0(false, pred) reads one token t and returns
\* pred(t); when it returned true, t is consumed and the following
\* next_token does not return it; when it returned false, or with cache =
\* true, t is pushed back and the following next_token returns t.
C20_CheckThenNextToken ==
    [][ret.op = "check" /\ ret'.op = "next_token" =>
          /\ ret.m = (ret.token \in arg.func)
          /\ IF ret.cache \/ ~ret.m
             THEN ret'.token = ret.token
             ELSE ret.token # Eof => ret'.at # ret.at]_vars


\* The token that starts at a file offset: the lexeme there, Eof at the end.
TokenAt(offset) == IF offset < Len(file) THEN file[offset + 1] ELSE Eof

\* C21: after a successful seek(offset), whatever preceded it, the byte
\* buffer and the token pushback are both empty, and the next next_token
\* returns the first token that starts at or after offset.
C21_SeekDiscardsCaches ==
    [][/\ ret'.op = "seek" /\ ret'.m => tok'.buf = << >> /\ tok'.token_buf = << >>
       /\ ret.op = "seek" /\ ret.m /\ ret'.op = "next_token" =>
              ret'.token = TokenAt(ret.at) /\ ret'.at = ret.at]_vars

\* A successful seek back into the file that found tokens pushed back.
C21_Witness ==
    ret.op = "seek" /\ ret.m /\ ret.before # << >> /\ ret.at < Len(file) /\ tok.spos = ret.at


\* C22: read_bytes(n) returns exactly the next n bytes from the tokenizer's
\* position, buffered bytes first and then bytes of the sequence, whenever
\* at least n bytes remain in the file, also when a single Sequence::read
\* returns fewer bytes than requested.
C22_ReadBytesExact ==
    ret.op = "read_bytes" /\ arg.at + arg.len <= Len(file) =>
        arg.bytes = SubSeq(file, arg.at + 1, arg.at + arg.len)


(***************************************************************************)
(* The Tokenizer over bytes (tokenizer.rs 172-321).  The file is shorter   *)
(* than the 1024 bytes of one refill, so the first read brings all of it   *)
(* into Tokenizer.buf and every later read returns 0.  An integer is kept  *)
(* as its decimal digits without leading zeros, so that no width is lost.  *)
(***************************************************************************)
MaxChrLen == 4    \* bytes in the file

\* '<' '>' ' ' '+' '-' '.' '1' 'R'
ChrBytes == {60, 62, 32, 43, 45, 46, 49, 82}

COMMON_END_CHARS == {60, 62, 40, 41, 13, 10, 92, 32, 47, 91, 93}

\* pdf_key! (constants.rs 19-31), the keys that the bytes above can spell.
IsKey(text) == text = <<82>>

RECURSIVE StripZeros(_)
StripZeros(digits) ==
    IF Len(digits) > 1 /\ Head(digits) = 0 THEN StripZeros(Tail(digits)) ELSE digits

\* Decimal digits compared as numbers.
RECURSIVE DecLess(_, _)
DecLess(a, b) ==
    IF Len(a) # Len(b) THEN Len(a) < Len(b)
    ELSE IF a = << >> THEN FALSE
    ELSE IF Head(a) # Head(b) THEN Head(a) < Head(b)
    ELSE DecLess(Tail(a), Tail(b))

U64Max == <<1, 8, 4, 4, 6, 7, 4, 4, 0, 7, 3, 7, 0, 9, 5, 5, 1, 6, 1, 5>>
I64Max == <<9, 2, 2, 3, 3, 7, 2, 0, 3, 6, 8, 5, 4, 7, 7, 5, 8, 0, 7>>
I64Min == <<9, 2, 2, 3, 3, 7, 2, 0, 3, 6, 8, 5, 4, 7, 7, 5, 8, 0, 8>>

NoNumber == [kind |-> "", neg |-> FALSE, digits |-> << >>, scale |-> 0]
ChrToken(type, text, num) == [type |-> type, text |-> text, num |-> num]
ChrEof == ChrToken("Eof", << >>, NoNumber)

\* What a tokenizer call gives: Ok with a token, or an error; buf after it.
ChrResult(kind, token, buf) == [kind |-> kind, token |-> token, buf |-> buf]

\* str::parse::<u64> and ::<i64>: an optional sign ('-' for i64 only), at
\* least one digit, and a value in the type's range.
ParseInteger(text, signed) ==
    LET sign   == text # << >> /\ (Head(text) = 43 \/ (signed /\ Head(text) = 45))
        neg    == sign /\ Head(text) = 45
        body   == IF sign THEN Tail(text) ELSE text
        digits == StripZeros([i \in 1..Len(body) |-> body[i] - 48])
    IN IF body = << >> \/ \E i \in 1..Len(body) : ~IsDigit(body[i])
       THEN [ok |-> FALSE, num |-> NoNumber]
       ELSE IF signed /\ DecLess(IF neg THEN I64Min ELSE I64Max, digits)
       THEN [ok |-> FALSE, num |-> NoNumber]
       ELSE IF ~signed /\ DecLess(U64Max, digits)
       THEN [ok |-> FALSE, num |-> NoNumber]
       ELSE [ok |-> TRUE,
             num |-> [kind |-> IF signed THEN "Signed" ELSE "Unsigned",
                      neg |-> neg /\ digits # <<0>>, digits |-> digits, scale |-> 0]]

\* str::parse::<f64> of a text with at most one sign, in front, and one
\* dot: it needs a digit.  The value is digits / 10^scale.
ParseReal(text) ==
    LET sign   == text # << >> /\ Head(text) \in {43, 45}
        body   == IF sign THEN Tail(text) ELSE text
        ds     == SelectSeq(body, IsDigit)
        dot    == CHOOSE i \in 1..Len(body) + 1 : i = Len(body) + 1 \/ body[i] = 46
    IN IF ds = << >> \/ \E i \in 1..Len(body) : ~IsDigit(body[i]) /\ body[i] # 46
       THEN [ok |-> FALSE, num |-> NoNumber]
       ELSE [ok |-> TRUE,
             num |-> [kind |-> "Real", neg |-> sign /\ Head(text) = 45,
                      digits |-> StripZeros([i \in 1..Len(ds) |-> ds[i] - 48]),
                      scale |-> IF dot > Len(body) THEN 0 ELSE Len(body) - dot]]

\* next_chr0 (tokenizer.rs 284-321): blanks are dropped, the first byte is
\* compared by func (the set of the bytes it accepts) and removed when it
\* is accepted; None when nothing is left.
RECURSIVE SkipBlanks(_)
SkipBlanks(buf) ==
    IF buf # << >> /\ (LineEnding(Head(buf)) \/ Head(buf) = 32)
    THEN SkipBlanks(Tail(buf)) ELSE buf

NextChr0(buf, func) ==
    LET b == SkipBlanks(buf)
    IN IF b = << >> THEN [some |-> FALSE, equal |-> FALSE, chr |-> 0, buf |-> b]
       ELSE [some |-> TRUE, equal |-> Head(b) \in func, chr |-> Head(b),
             buf |-> IF Head(b) \in func THEN Tail(b) ELSE b]

\* next_chr_was (tokenizer.rs 276-281).
NextChrWas(buf, chr) ==
    [equal |-> NextChr0(buf, {chr}).some /\ NextChr0(buf, {chr}).equal,
     buf |-> NextChr0(buf, {chr}).buf]

\* loop_util (tokenizer.rs 239-266) with the closure of num_deco
\* (tokenizer.rs 207-221): the index of the first end character.
RECURSIVE NumLoopAnyDots(_, _, _)
NumLoopAnyDots(buf, i, is_real) ==
    IF i = Len(buf) THEN [kind |-> "EOFError", index |-> i, is_real |-> is_real]
    ELSE IF buf[i + 1] \in COMMON_END_CHARS
    THEN [kind |-> "Ok", index |-> i, is_real |-> is_real]
    ELSE IF buf[i + 1] = 46 THEN NumLoopAnyDots(buf, i + 1, TRUE)
    ELSE IF ~IsDigit(buf[i + 1])
    THEN [kind |-> "PDFParseError0", index |-> i, is_real |-> is_real]
    ELSE NumLoopAnyDots(buf, i + 1, is_real)
RECURSIVE NumLoop(_, _, _)
NumLoop(buf, i, is_real) ==
    IF i = Len(buf) THEN [kind |-> "EOFError", index |-> i, is_real |-> is_real]
    ELSE IF buf[i + 1] \in COMMON_END_CHARS
    THEN [kind |-> "Ok", index |-> i, is_real |-> is_real]
    ELSE IF buf[i + 1] = 46
    THEN IF is_real THEN [kind |-> "PDFParseError", index |-> i, is_real |-> is_real]
         ELSE NumLoop(buf, i + 1, TRUE)
    ELSE IF ~IsDigit(buf[i + 1])
    THEN [kind |-> "PDFParseError0", index |-> i, is_real |-> is_real]
    ELSE NumLoop(buf, i + 1, is_real)

\* loop_util with the closure of the identifier branch (tokenizer.rs 191).
RECURSIVE WordLoop(_, _)
WordLoop(buf, i) ==
    IF i = Len(buf) THEN [kind |-> "EOFError", index |-> i]
    ELSE IF buf[i + 1] \in COMMON_END_CHARS THEN [kind |-> "Ok", index |-> i]
    ELSE WordLoop(buf, i + 1)

\* num_deco (tokenizer.rs 205-237).
NumDeco(chr, buf) ==
    LET range == NumLoop(buf, 0, chr = 46)
        text  == <<chr>> \o SubSeq(buf, 1, range.index)
        rest  == SubSeq(buf, range.index + 1, Len(buf))
        value == IF range.is_real THEN ParseReal(text)
                 ELSE ParseInteger(text, chr = 45)
    IN IF range.kind # "Ok" THEN ChrResult(range.kind, ChrEof, buf)
       ELSE IF ~value.ok
       THEN ChrResult(IF range.is_real THEN "ParseFloatError" ELSE "ParseIntError",
                      ChrEof, rest)
       ELSE ChrResult("Ok", ChrToken("Number", text, value.num), rest)

\* chr2token (tokenizer.rs 172-203).
Chr2Token(chr, buf) ==
    IF chr \in {60, 62}
    THEN ChrResult("Ok",
                   ChrToken("Delimiter",
                            IF NextChrWas(buf, chr).equal THEN <<chr, chr>> ELSE <<chr>>,
                            NoNumber),
                   NextChrWas(buf, chr).buf)
    ELSE IF chr \in {47, 40, 41, 91, 93}
    THEN ChrResult("Ok", ChrToken("Delimiter", <<chr>>, NoNumber), buf)
    ELSE IF chr \in {43, 45, 46} \/ IsDigit(chr) THEN NumDeco(chr, buf)
    ELSE LET range == WordLoop(buf, 0)
             text  == <<chr>> \o SubSeq(buf, 1, range.index)
         IN IF range.kind # "Ok" THEN ChrResult(range.kind, ChrEof, buf)
            ELSE ChrResult("Ok",
                           ChrToken(IF IsKey(text) THEN "Key" ELSE "Id", text, NoNumber),
                           SubSeq(buf, range.index + 1, Len(buf)))

\* next_token (tokenizer.rs 160-170) with token_buf empty.
ChrNextToken(buf) ==
    LET c == NextChr0(buf, 0..255)
    IN IF ~c.some THEN ChrResult("Ok", ChrEof, c.buf)
       ELSE Chr2Token(c.chr, c.buf)

\* The tokenizer has read the file into buf; arg is buf as the last call
\* found it.
InitChr ==
    /\ file \in SeqsUpTo(ChrBytes, MaxChrLen)
    /\ tok = [buf |-> file, token_buf |-> << >>, spos |-> Len(file)]
    /\ arg = << >>
    /\ ret = ChrResult("new", ChrEof, file)
    /\ seq = [buf |-> << >>, pos |-> 0]
    /\ result = None
    /\ pc = "ready"
    /\ err = ""
    /\ secs = << >> /\ pos = 0 /\ catalog = None /\ info = None /\ xrefs = << >>
    /\ InitIdleTree /\ InitIdleFilter

ChrStep ==
    /\ ~(ret.kind = "Ok" /\ ret.token.type = "Eof")
    /\ ret' = ChrNextToken(tok.buf)
    /\ arg' = tok.buf
    /\ tok' = [tok EXCEPT !.buf = ChrNextToken(tok.buf).buf]
    /\ UNCHANGED <<pc, err, xrefs, nodes, file, result, seq, xrefVars, treeVars, filterVars>>

ChrDelimiter ==
    /\ ChrNextToken(tok.buf).token.type = "Delimiter"
    /\ ChrStep
ChrNumber ==
    /\ ChrNextToken(tok.buf).token.type = "Number"
    /\ ChrStep
ChrWord ==
    /\ ChrNextToken(tok.buf).token.type \in {"Id", "Key"}
    /\ ChrStep
ChrEnd ==
    /\ ChrNextToken(tok.buf).kind = "Ok"
    /\ ChrNextToken(tok.buf).token.type = "Eof"
    /\ ChrStep
ChrError ==
    /\ ChrNextToken(tok.buf).kind # "Ok"
    /\ ChrStep

NextChrs ==
    \/ ChrDelimiter
    \/ ChrNumber
    \/ ChrWord
    \/ ChrEnd
    \/ ChrError

SpecChr == InitChr /\ [][NextChrs]_vars

\* The bytes of the token that starts buf: up to the first end character.
RECURSIVE Lexeme(_)
Lexeme(buf) ==
    IF buf = << >> \/ Head(buf) \in COMMON_END_CHARS THEN << >>
    ELSE <<Head(buf)>> \o Lexeme(Tail(buf))

Dots(text) == Len(SelectSeq(text, LAMBDA b : b = 46))

MaxDigits == 20    \* digits of the integer token

\* 2^16, 2^32, 2^63 and 2^64.
IntTexts == {<<54, 53, 53, 51, 54>>,
             <<52, 50, 57, 52, 57, 54, 55, 50, 57, 54>>,
             <<57, 50, 50, 51, 51, 55, 50, 48, 51, 54, 56, 53, 52, 55, 55, 53, 56, 48, 56>>,
             <<49, 56, 52, 52, 54, 55, 52, 52, 48, 55, 51, 55, 48, 57, 53, 53, 49, 54, 49, 54>>}

U32Max == <<4, 2, 9, 4, 9, 6, 7, 2, 9, 5>>
U16Max == <<6, 5, 5, 3, 5>>

\* `num as u32`: the value modulo 2^32, digit by digit.
RECURSIVE AsU32Halves(_, _)
AsU32Halves(digits, acc) ==
    IF digits = << >> THEN acc
    ELSE LET lo == acc.lo * 10 + Head(digits)
             hi == acc.hi * 10 + lo \div 65536
         IN AsU32Halves(Tail(digits), [hi |-> hi % 65536, lo |-> lo % 65536])

Converted(op, kind, digits, halves) ==
    [op |-> op, kind |-> kind, digits |-> digits, hi |-> halves.hi, lo |-> halves.lo]

\* as_u64 (tokenizer.rs 75-80).
AsU64(token) ==
    IF token.type = "Number" /\ token.num.kind = "Unsigned"
    THEN Converted("as_u64", "Ok", token.num.digits, [hi |-> 0, lo |-> 0])
    ELSE Converted("as_u64", "PDFParseError0", << >>, [hi |-> 0, lo |-> 0])

\* as_u32 (tokenizer.rs 82-87).
AsU32(token) ==
    IF token.type = "Number" /\ token.num.kind = "Unsigned"
    THEN Converted("as_u32", "Ok", << >>, AsU32Halves(token.num.digits, [hi |-> 0, lo |-> 0]))
    ELSE Converted("as_u32", "PDFParseError0", << >>, [hi |-> 0, lo |-> 0])

\* as_u16 (tokenizer.rs 89-94): `num as u16`, the low half.
AsU16(token) ==
    IF token.type = "Number" /\ token.num.kind = "Unsigned"
    THEN Converted("as_u16", "Ok", << >>,
                   [hi |-> 0, lo |-> AsU32Halves(token.num.digits, [hi |-> 0, lo |-> 0]).lo])
    ELSE Converted("as_u16", "PDFParseError0", << >>, [hi |-> 0, lo |-> 0])

\* An integer token, with '-' in front or not, and a blank after it.
InitInt ==
    /\ arg \in {sign \o SubSeq(text, 1, Min(n, Len(text))) :
                   sign \in {<< >>, <<45>>}, text \in IntTexts, n \in 1..MaxDigits}
    /\ ret = ChrResult("new", ChrEof, << >>)
    /\ result = None
    /\ seq = [buf |-> << >>, pos |-> 0]
    /\ file = << >> /\ tok = FreshTokenizer
    /\ pc = "ready"
    /\ err = ""
    /\ secs = << >> /\ pos = 0 /\ catalog = None /\ info = None /\ xrefs = << >>
    /\ InitIdleTree /\ InitIdleFilter

IntFrame ==
    UNCHANGED <<arg, err, xrefs, nodes, file, tok, seq, xrefVars, treeVars, filterVars>>

\* next_token on the text and a blank.
IntToken ==
    /\ pc = "ready"
    /\ ret' = ChrNextToken(arg \o <<32>>)
    /\ pc' = IF ChrNextToken(arg \o <<32>>).kind = "Ok" THEN "token" ELSE "err"
    /\ UNCHANGED result
    /\ IntFrame

IntConvert(conv) ==
    /\ pc = "token"
    /\ result' = conv
    /\ pc' = "done"
    /\ UNCHANGED ret
    /\ IntFrame

IntAsU64 ==
    /\ ret.token.type = "Number"
    /\ IntConvert(AsU64(ret.token))
IntAsU32 ==
    /\ ret.token.type = "Number"
    /\ IntConvert(AsU32(ret.token))
IntAsU16 ==
    /\ ret.token.type = "Number"
    /\ IntConvert(AsU16(ret.token))

NextInt ==
    \/ IntToken
    \/ IntAsU64
    \/ IntAsU32
    \/ IntAsU16

SpecInt == InitInt /\ [][NextInt]_vars

\* The digits of the text, without sign and leading zeros.
IntDigits(text) ==
    StripZeros([i \in 1..Len(SelectSeq(text, IsDigit)) |-> SelectSeq(text, IsDigit)[i] - 48])

\* C24: an integer token outside the u64 (unsigned) or i64 (signed) range is
\* an error, and an object number above 2^32-1 or a generation number above
\* 2^16-1 taken from a token through as_u32 / as_u16 is an error, never a
\* value reduced modulo 2^32 or 2^16.
C24_OverflowIsFatal ==
    /\ pc = "token" =>
          IF Head(arg) = 45 THEN ~DecLess(I64Min, IntDigits(arg))
          ELSE ~DecLess(U64Max, IntDigits(arg))
    /\ pc = "done" /\ result.op = "as_u32" /\ DecLess(U32Max, IntDigits(arg)) =>
          result.kind # "Ok"
    /\ pc = "done" /\ result.op = "as_u16" /\ DecLess(U16Max, IntDigits(arg)) =>
          result.kind # "Ok"


\* C25: the tokenizer emits Delimiter("<<") (">>") exactly when a '<' ('>')
\* byte is immediately followed by a second one; a '<' whose next byte is
\* anything else, whitespace included, is the single delimiter and the
\* bytes after it are left for the following tokens.
C25_DoubleDelimiter ==
    LET from   == SkipBlanks(arg)
        double == Len(from) >= 2 /\ from[2] = from[1]
    IN ret.kind # "new" /\ from # << >> /\ Head(from) \in {60, 62} =>
           /\ ret.kind = "Ok" /\ ret.token.type = "Delimiter"
           /\ ret.token.text = (IF double THEN <<from[1], from[1]>> ELSE <<from[1]>>)
           /\ SkipBlanks(ret.buf) =
                  SkipBlanks(SubSeq(from, IF double THEN 3 ELSE 2, Len(from)))


(***************************************************************************)
(* The digits after `startxref` (document.rs 288-302, utils.rs 95-103).    *)
(* A u64 is kept as four 16-bit limbs, the most significant first.  A      *)
(* build with overflow checks panics where the other build wraps.          *)
(***************************************************************************)
MaxRunLen == 20    \* bytes between the line endings after the keyword

U64Zero == <<0, 0, 0, 0>>

\* value * 10 + b on limbs: the limbs modulo 2^64 and the carry out of them.
MulAdd10(limbs, b) ==
    LET l4 == limbs[4] * 10 + b
        l3 == limbs[3] * 10 + l4 \div 65536
        l2 == limbs[2] * 10 + l3 \div 65536
        l1 == limbs[1] * 10 + l2 \div 65536
    IN [limbs |-> <<l1 % 65536, l2 % 65536, l3 % 65536, l4 % 65536>>,
        carry |-> l1 \div 65536]

\* literal_to_u64 (utils.rs 95-103): `bytes[i] - 48` on a u8 and
\* `value * 10 + b` on a u64.
RECURSIVE LiteralToU64Loop(_, _, _)
LiteralToU64Loop(bytes, value, build) ==
    IF bytes = << >> THEN [kind |-> "Ok", value |-> value]
    ELSE IF Head(bytes) < 48 /\ build = "debug" THEN [kind |-> "Panic", value |-> U64Zero]
    ELSE LET b    == IF Head(bytes) < 48 THEN Head(bytes) + 208 ELSE Head(bytes) - 48
             next == MulAdd10(value, b)
         IN IF next.carry > 0 /\ build = "debug" THEN [kind |-> "Panic", value |-> U64Zero]
            ELSE LiteralToU64Loop(Tail(bytes), next.limbs, build)

\* The bytes buf[start..end] of document.rs 288-300 for the keyword found
\* at `found`; end = 0 when no line ending follows.
OffsetRun(buf, found) ==
    LET n == Len(buf)
        index == found + Len(StartXref)
        start == index + CountLeadingLineEndings(SubSeq(buf, index + 1, n))
        ends == {i \in start..(n - 1) : LineEnding(buf[i + 1])}
        end == IF ends = {} THEN 0 ELSE CHOOSE i \in ends : \A j \in ends : i <= j
    IN [start |-> start, end |-> end, bytes |-> SubSeq(buf, start + 1, end)]

\* cal_xref_table_offset (document.rs 265-303) on a file of at most 1024
\* bytes: pos is 0 and buf is the whole file.
CalXrefTableOffsetU64(bytes, build) ==
    LET buf == bytes
        index == ScanBack(buf, Len(buf) - 1, Len(StartXref))
        run == OffsetRun(buf, index)
    IN IF index = Len(buf) THEN [kind |-> "InvalidPDFDocument", value |-> U64Zero]
       ELSE IF run.end = 0 \/ run.start = run.end
       THEN [kind |-> "InvalidPDFDocument", value |-> U64Zero]
       ELSE LiteralToU64Loop(run.bytes, U64Zero, build)

\* 2^64 and twenty nines, "5a", "5 ", "5/", "a", "+5" and "".
OffsetRuns ==
    {SubSeq(<<49, 56, 52, 52, 54, 55, 52, 52, 48, 55, 51, 55, 48, 57, 53, 53, 49, 54, 49, 54>>,
            1, n) : n \in 0..MaxRunLen}
    \cup {[i \in 1..n |-> 57] : n \in 1..MaxRunLen}
    \cup {<<49, 56, 52, 52, 54, 55, 52, 52, 48, 55, 51, 55, 48, 57, 53, 53, 49, 54, 49, 53>>,
          <<53, 97>>, <<53, 32>>, <<53, 47>>, <<97>>, <<43, 53>>}

\* The end of a file: the keyword, LF, the run, LF.
InitOffset ==
    /\ arg \in {[bytes |-> StartXref \o <<10>> \o run \o <<10>>, run |-> run, build |-> build] :
                   run \in {r \in OffsetRuns : Len(r) <= MaxRunLen},
                   build \in {"debug", "release"}}
    /\ ret = None
    /\ seq = [buf |-> << >>, pos |-> 0]
    /\ pc = "ready"
    /\ err = ""
    /\ secs = << >> /\ pos = 0 /\ catalog = None /\ info = None /\ xrefs = << >>
    /\ InitIdleTree /\ InitIdleRead /\ InitIdleFilter

OffsetStep(kind) ==
    /\ pc = "ready"
    /\ CalXrefTableOffsetU64(arg.bytes, arg.build).kind = kind
    /\ ret' = CalXrefTableOffsetU64(arg.bytes, arg.build)
    /\ pc' = "done"
    /\ UNCHANGED <<arg, seq>> /\ CallFrame

OffsetOk ==
    /\ arg.bytes # << >>
    /\ OffsetStep("Ok")
OffsetInvalid ==
    /\ arg.bytes # << >>
    /\ OffsetStep("InvalidPDFDocument")
OffsetPanic ==
    /\ arg.bytes # << >>
    /\ OffsetStep("Panic")

NextOffset ==
    \/ OffsetOk
    \/ OffsetInvalid
    \/ OffsetPanic

SpecOffset == InitOffset /\ [][NextOffset]_vars

\* The value of decimal digits that fit in 64 bits, as limbs.
RECURSIVE DecimalLimbs(_, _)
DecimalLimbs(digits, value) ==
    IF digits = << >> THEN value
    ELSE DecimalLimbs(Tail(digits), MulAdd10(value, Head(digits)).limbs)

\* C26: the offset returned is the decimal value of the run of ASCII digits
\* that follows `startxref` and its line ending, up to the next line
\* terminator; when the run has a byte that is not a decimal digit, or its
\* value does not fit in 64 bits, opening fails with an error.
C26_OffsetIsDecimalValue ==
    pc = "done" =>
        LET digits == StripZeros([i \in 1..Len(arg.run) |-> arg.run[i] - 48])
        IN IF arg.run # << >> /\ (\A i \in 1..Len(arg.run) : IsDigit(arg.run[i]))
              /\ ~DecLess(U64Max, digits)
           THEN ret.kind = "Ok" /\ ret.value = DecimalLimbs(digits, U64Zero)
           ELSE ret.kind = "InvalidPDFDocument"


(***************************************************************************)
(* Termination of merge_xref_table (document.rs 218-249): the loop takes   *)
(* its next turn whenever it can.                                          *)
(***************************************************************************)
SpecXrefLive == InitXref /\ [][NextXref]_vars /\ WF_vars(NextXref)

\* C27: merge_xref_table terminates on every input: it stops at the first
\* trailer without /Prev, and when the /Prev offsets form a cycle the walk
\* still ends, with a result or an error.
C27_MergeTerminates == <>(pc \in {"done", "err"})


\* C28: decode_stream on a stream whose metadata has no /Filter entry (an
\* empty filter list) returns the stream's raw bytes unchanged.
C28_NoFilterIsIdentity ==
    pc = "done" /\ stream.filters = << >> => decoded = Ok(stream.buf)


(***************************************************************************)
(* next_token, check_next_token and check_next_token0 in any order, with   *)
(* no seek or read_bytes between them; `result` is the sequence of the     *)
(* tokens consumed so far.                                                 *)
(***************************************************************************)
MaxConsumed == 4    \* tokens consumed in one run, Eof included

InitOrder ==
    /\ file \in [1..TokFileLen -> {"num", "R", "obj"}]
    /\ tok = FreshTokenizer
    /\ ret = TokReturned("new", FALSE, FALSE, "", 0 - 1, << >>)
    /\ arg = None
    /\ seq = [buf |-> << >>, pos |-> 0]
    /\ result = << >>
    /\ pc = "ready"
    /\ err = ""
    /\ secs = << >> /\ pos = 0 /\ catalog = None /\ info = None /\ xrefs = << >>
    /\ InitIdleTree /\ InitIdleFilter

OrderFrame ==
    UNCHANGED <<pc, err, xrefs, nodes, file, seq, xrefVars, treeVars, filterVars>>

OrderNextToken ==
    /\ Len(result) < MaxConsumed
    /\ tok' = NextToken(tok).tok
    /\ ret' = TokReturned("next_token", FALSE, FALSE, NextToken(tok).token,
                          IF tok.token_buf # << >> THEN 0 - 1 ELSE FreshAt(tok),
                          tok.token_buf)
    /\ arg' = None
    /\ result' = Append(result, NextToken(tok).token)
    /\ OrderFrame

OrderCheck(cache, func) ==
    /\ Len(result) < MaxConsumed
    /\ Len(tok.token_buf) < MaxPushback
    /\ tok' = CheckNextToken0(tok, cache, func).tok
    /\ ret' = TokReturned("check", cache, CheckNextToken0(tok, cache, func).m,
                          CheckNextToken0(tok, cache, func).token, FreshAt(tok),
                          tok.token_buf)
    /\ arg' = [cache |-> cache, func |-> func]
    /\ result' = IF CheckNextToken0(tok, cache, func).m /\ ~cache
                 THEN Append(result, CheckNextToken0(tok, cache, func).token)
                 ELSE result
    /\ OrderFrame

OrderCheckNextToken ==
    \E func \in {IsNumber, IsROrObj} :
        /\ func # {}
        /\ OrderCheck(TRUE, func)

OrderCheckNextToken0 ==
    \E func \in {IsNumber, IsROrObj} :
        /\ func # {}
        /\ OrderCheck(FALSE, func)

NextOrder ==
    \/ OrderNextToken
    \/ OrderCheckNextToken
    \/ OrderCheckNextToken0

SpecOrder == InitOrder /\ [][NextOrder]_vars

\* C29: with no seek or read_bytes in between, each predicate is applied to
\* the oldest token not yet consumed, and the tokens consumed (returned by
\* next_token or accepted by check_next_token0(false, ..)) are, in order, a
\* prefix of the token sequence of the input.
C29_StreamOrder ==
    /\ \A i \in 1..Len(result) : result[i] = TokenAt(i - 1)
    /\ ret.op = "check" =>
          LET before == IF ret.m /\ ~ret.cache THEN Len(result) - 1 ELSE Len(result)
          IN ret.token = TokenAt(before) /\ ret.at = Min(before, Len(file))


(***************************************************************************)
(* The outline arena (catalog.rs 226-285).  Object o lies at offset o and  *)
(* has generation 0; `objs` is what parse_with_offset finds there and      *)
(* `nodes` is the map of outline nodes.                                    *)
(***************************************************************************)
MaxOutline == 3    \* outline objects 1..MaxOutline

\* The objects /First and /Next may name: MaxOutline + 1 has no xref entry.
OutlineTargets == 1..(MaxOutline + 1)

OutlineObjects ==
    [isDict : {TRUE}, first : OptOf(OutlineTargets), next : OptOf(OutlineTargets)]
    \cup {[isDict |-> FALSE, first |-> None, next |-> None]}

OutlineNode(first_id, next_id, parent_id) ==
    [first_id |-> first_id, next_id |-> next_id, parent_id |-> parent_id]

OptNodeId(o) == IF IsSome(o) THEN Some(MixtureNodeId(Get(o), 0)) ELSE None

Built(kind, map) == [kind |-> kind, map |-> map]

\* build_outline_tree (catalog.rs 226-285), the depth-th nested invocation:
\* past MaxOutline invocations of objects that exist, one of them is being
\* built inside its own build, and the recursion does not end.
RECURSIVE BuildOutlineTree(_, _, _, _)
BuildOutlineTree(obj_num, parent_id, map, depth) ==
    IF ~IsSome(XrefsSearch(xrefs, <<obj_num, 0>>)) THEN Built("XrefEntryNotFound", map)
    ELSE IF depth > MaxOutline THEN Built("StackOverflow", map)
    ELSE LET attrs   == Get(ObjectAt(Get(XrefsSearch(xrefs, <<obj_num, 0>>)).value))
             node_id == MixtureNodeId(obj_num, 0)
             first   == IF IsSome(attrs.first)
                        THEN BuildOutlineTree(Get(attrs.first), Some(node_id), map, depth + 1)
                        ELSE Built("Ok", map)
             next    == IF IsSome(attrs.next)
                        THEN BuildOutlineTree(Get(attrs.next), Some(node_id), first.map,
                                              depth + 1)
                        ELSE Built("Ok", first.map)
         IN IF ~attrs.isDict THEN Built("PDFParseError", map)
            ELSE IF first.kind # "Ok" THEN first
            ELSE IF next.kind # "Ok" THEN next
            ELSE Built("Ok",
                       Insert(next.map, node_id,
                              OutlineNode(OptNodeId(attrs.first), OptNodeId(attrs.next),
                                          parent_id)))

\* decode_catalog_data (catalog.rs 133-139): /Outlines is object 1.
InitOutline ==
    /\ objs \in [1..MaxOutline -> OutlineObjects]
    /\ xrefs = <<XEntry(0, 65535, 0, FALSE)>> \o [o \in 1..MaxOutline |-> XEntry(o, 0, o, TRUE)]
    /\ nodes = << >>
    /\ call = None /\ stack = << >>
    /\ pc = "ready"
    /\ err = ""
    /\ secs = << >> /\ pos = 0 /\ catalog = None /\ info = None
    /\ InitIdleRead /\ InitIdleFilter /\ InitIdleCall

OutlineFrame ==
    UNCHANGED <<xrefs, objs, call, stack, xrefVars, readVars, filterVars, callVars>>

\* catalog.rs 137-138: the map is filled.
OutlineBuilt ==
    /\ pc = "ready"
    /\ BuildOutlineTree(1, None, << >>, 1).kind = "Ok"
    /\ nodes' = BuildOutlineTree(1, None, << >>, 1).map
    /\ pc' = "done"
    /\ UNCHANGED err
    /\ OutlineFrame

\* The `?` of catalog.rs 137.
OutlineFailed ==
    /\ pc = "ready"
    /\ BuildOutlineTree(1, None, << >>, 1).kind \in {"XrefEntryNotFound", "PDFParseError"}
    /\ err' = BuildOutlineTree(1, None, << >>, 1).kind
    /\ pc' = "err"
    /\ UNCHANGED nodes
    /\ OutlineFrame

\* /First and /Next lead back to an object that is being built.
OutlineOverflow ==
    /\ pc = "ready"
    /\ BuildOutlineTree(1, None, << >>, 1).kind = "StackOverflow"
    /\ err' = "StackOverflow"
    /\ pc' = "crashed"
    /\ UNCHANGED nodes
    /\ OutlineFrame

NextOutline ==
    \/ OutlineBuilt
    \/ OutlineFailed
    \/ OutlineOverflow

SpecOutline == InitOutline /\ [][NextOutline]_vars

\* C30: an item reached through a node's /First link records that node as
\* parent, an item reached through a sibling's /Next link records the same
\* parent as that sibling, and the root outline node records no parent.
\* (/Next of the root is left aside: the root has no siblings.)
C30_ParentFollowsTree ==
    pc = "done" =>
        /\ nodes[MixtureNodeId(1, 0)].parent_id = None
        /\ \A id \in DOMAIN nodes :
              /\ IsSome(nodes[id].first_id) =>
                     nodes[Get(nodes[id].first_id)].parent_id = Some(id)
              /\ IsSome(nodes[id].next_id) /\ id # MixtureNodeId(1, 0) =>
                     nodes[Get(nodes[id].next_id)].parent_id = nodes[id].parent_id

=============================================================================
